---- MODULE Spec2Model ----
(***************************************************************************)
(* A model of llvm-profparser: the counter expression evaluator            *)
(* (CoverageMapping::generate_report) and the profile merge                *)
(* (InstrumentationProfile::merge).                                        *)
(*                                                                         *)
(* Integers are scaled: u64, i64 and usize are Width bits wide instead of  *)
(* 64 (a 64-bit target, so usize is as wide as u64); every cast and every  *)
(* overflow is modelled on that width.  Option<T> is a set with at most    *)
(* one element: {} is None and {v} is Some(v).  Vec indices are 1-based    *)
(* here and 0-based in the source, so expression id k is expressions[k+1]. *)
(***************************************************************************)
EXTENDS Integers, Sequences, FiniteSets, TLC

\* ------------------------------------------------------------- bounds
Width == 2
MaxExprs == 2
MaxRegions == 2
MaxCounts == 2
MaxId == 1

\* ------------------------------------------------------------ integers
Pow2 == 2 ^ Width
U64Max == Pow2 - 1
I64Max == (2 ^ (Width - 1)) - 1
I64Min == 0 - (2 ^ (Width - 1))

\* `*count as i64`: a u64 reinterpreted as i64.
AsI64(u) == IF u > I64Max THEN u - Pow2 ELSE u

\* `count as usize`: an i64 reinterpreted as usize.
AsUsize(v) == v % Pow2

\* i64 wrapped into its range (what + and - give in a build without overflow checks).
WrapI64(v) == ((v - I64Min) % Pow2) + I64Min

\* usize::saturating_add
SaturatingAdd(a, b) == IF a + b > U64Max THEN U64Max ELSE a + b

\* ------------------------------------------------------------- counters
Zero == "Zero"
ProfileInstrumentation == "ProfileInstrumentation"
Expression == "Expression"
Subtract == "Subtract"
Add == "Add"
NoKind == "NoKind"

Counter(kind, ek, id) == [kind |-> kind, ek |-> ek, id |-> id]

\* Counter::default()
DefaultCounter == Counter(Zero, NoKind, 0)

\* Counter::instrumentation(id)
Instrumentation(id) == Counter(ProfileInstrumentation, NoKind, id)

is_expression(c) == c.kind = Expression
is_instrumentation(c) == c.kind = ProfileInstrumentation
is_zero(c) == c.kind = Zero

\* Expression::default()
DefaultExpression == [kind |-> Subtract, lhs |-> DefaultCounter, rhs |-> DefaultCounter]

\* parse_counter: the counter an encoded value decodes to.
parse_counter(input) ==
    LET ty == input % 4
        id == input \div 4
    IN  CASE ty = 0 -> Counter(Zero, NoKind, id)
          [] ty = 1 -> Counter(ProfileInstrumentation, NoKind, id)
          [] ty = 2 -> Counter(Expression, Subtract, id)
          [] ty = 3 -> Counter(Expression, Add, id)

\* A parse_counter that leaves the expression table as it is.
parse_counter_no_resize(input, exprs) == exprs

\* parse_counter: what decoding `input` does to the expression table (grown
\* with defaults up to the referenced id, whose kind is set from the tag).
parse_counter_exprs(input, exprs) ==
    LET ty == input % 4
        id == input \div 4
        grown == IF Len(exprs) <= id
                 THEN exprs \o [k \in 1..(id + 1 - Len(exprs)) |-> DefaultExpression]
                 ELSE exprs
    IN  IF ty \in {2, 3}
        THEN [grown EXCEPT ![id + 1].kind = IF ty = 2 THEN Subtract ELSE Add]
        ELSE exprs

\* parse_coverage_functions, the expression loop: enc is the list of
\* (lhs, rhs) encoded pairs, exprs starts as expr_len defaults.
RECURSIVE decode_expressions(_, _, _)
decode_expressions(enc, i, exprs) ==
    IF i > Len(enc) THEN exprs
    ELSE LET e1 == parse_counter_exprs(enc[i][1], exprs)
             e2 == parse_counter_exprs(enc[i][2], e1)
             e3 == [e2 EXCEPT ![i].lhs = parse_counter(enc[i][1]),
                              ![i].rhs = parse_counter(enc[i][2])]
         IN  decode_expressions(enc, i + 1, e3)

\* parse_mapping_regions for one file index: each region's counter is decoded
\* from its header (which may grow the expression table); enc is the list of
\* headers, the region at position j gets the source range Loc(j).
Loc(j) == <<j, 1, j, 1>>

RECURSIVE decode_regions(_, _, _, _, _)
decode_regions(enc, j, file_index, exprs, acc) ==
    IF j > Len(enc) THEN [regions |-> acc, expressions |-> exprs]
    ELSE decode_regions(enc, j + 1, file_index,
                        parse_counter_exprs(enc[j], exprs),
                        Append(acc, [count |-> parse_counter(enc[j]),
                                     file_id |-> file_index,
                                     loc |-> Loc(j)]))

\* parse_coverage_functions: one decoded FunctionRecordV3.
FunctionRecordV3(name_hash, fn_hash, filenames_ref, file_index, expr_enc, region_enc) ==
    LET exprs == decode_expressions(expr_enc, 1,
                                    [k \in 1..Len(expr_enc) |-> DefaultExpression])
        dec == decode_regions(region_enc, 1, file_index, exprs, <<>>)
    IN  [header |-> [name_hash |-> name_hash, fn_hash |-> fn_hash,
                     filenames_ref |-> filenames_ref],
         regions |-> dec.regions,
         expressions |-> dec.expressions]

\* ---------------------------------------------------------------- paths
\* A PathBuf: whether it is absolute, and its components.
PathBuf(abs, comps) == [abs |-> abs, comps |-> comps]

\* PathBuf::default()
EmptyPath == PathBuf(FALSE, <<>>)

\* Path::join: an absolute path replaces the base.
join(base, path) ==
    IF path.abs THEN path ELSE PathBuf(base.abs, base.comps \o path.comps)

\* CoverageMappingInfo::get_files_from_id, the loop over the list v: relative
\* paths are joined onto the first absolute path seen so far (or onto the
\* empty path before any was seen).
RECURSIVE files_from_list(_, _, _, _)
files_from_list(v, k, last_absolute, acc) ==
    IF k > Len(v) THEN acc
    ELSE IF v[k].abs
         THEN files_from_list(v, k + 1,
                              IF last_absolute = {} THEN {v[k]} ELSE last_absolute,
                              Append(acc, v[k]))
         ELSE LET base == IF last_absolute = {} THEN EmptyPath
                          ELSE CHOOSE b \in last_absolute : TRUE
              IN  files_from_list(v, k + 1, last_absolute, Append(acc, join(base, v[k])))

\* CoverageMappingInfo::get_files_from_id
get_files_from_id(map, id) ==
    IF id \in DOMAIN map THEN files_from_list(map[id], 1, {}, <<>>) ELSE <<>>

\* ----------------------------------------------------------------- maps
EmptyMap == [x \in {} |-> 0]

\* HashMap::insert / BTreeMap::insert
Put(m, k, v) == [x \in (DOMAIN m) \cup {k} |-> IF x = k THEN v ELSE m[x]]

\* An insert that replaces an existing entry.
replace_entry(hits, loc, count) == Put(hits, loc, count)

\* CoverageResult::insert: saturating add onto an existing entry.
result_insert(hits, loc, count) ==
    IF loc \in DOMAIN hits
    THEN [hits EXCEPT ![loc] = SaturatingAdd(@, count)]
    ELSE Put(hits, loc, count)

\* report.files.entry(path).or_default() followed by insert(loc, count)
report_insert(rep, path, loc, count) ==
    Put(rep, path,
        result_insert(IF path \in DOMAIN rep THEN rep[path] ELSE EmptyMap, loc, count))

\* ------------------------------------------------------------ evaluator
VARIABLES
    profile,        \* the InstrumentationProfile the CoverageMapping borrows
    cov_map,        \* mapping_info.cov_map: filenames_ref -> list of paths
    cov_fun,        \* mapping_info.cov_fun: the decoded function records
    pc,             \* where generate_report is
    func_i,         \* the function record being processed (1-based)
    region_i,       \* cursor of the loop over the non-expression regions
    expr_i,         \* cursor of the first pass over func.expressions
    paths,          \* get_files_from_id(func.header.filenames_ref)
    region_ids,     \* the working map Counter -> i64
    pending_exprs,  \* the expression ids (0-based) still to resolve
    index,          \* the pending loop's index
    tries_left,     \* the pending loop's pass budget
    report,         \* report.files: path -> (source range -> count)
    emitted,        \* history: every CoverageResult::insert generate_report made
    passes          \* history: passes the pending loop made over its list

evalVars == <<profile, cov_map, cov_fun, pc, func_i, region_i, expr_i, paths,
              region_ids, pending_exprs, index, tries_left, report, emitted, passes>>

\* ---------------------------------------------------------------- merge
VARIABLES
    in_a, in_b, in_c,   \* three profiles as the readers returned them
    stage,              \* which merge is running: "ab", "abc", "bc", "a_bc", "ba"
    mpc,                \* where InstrumentationProfile::merge is
    self,               \* the profile merged into
    other,              \* the profile merged from
    cursor,             \* the next record of other.records (1-based)
    before,             \* history: self before the last merge_record call
    outcome,            \* history: what the last merge_record call did
    results             \* the finished merges, by stage

mergeVars == <<in_a, in_b, in_c, stage, mpc, self, other, cursor, before, outcome, results>>

\* -------------------------------------------------------- path remapping
VARIABLES
    report_files,   \* CoverageReport::files: path -> hits
    remapping,      \* the PathRemapping: source and dest
    inputs,         \* apply_remapping: the keys collected before the loop
    input_i,        \* the next element of inputs (1-based)
    rpc,            \* where apply_remapping is
    files_before    \* history: files when apply_remapping was called

remapVars == <<report_files, remapping, inputs, input_i, rpc, files_before>>

\* ------------------------------------------------------- profile headers
VARIABLES
    reader,         \* the reader that is parsing: "raw", "indexed" or "text"
    bytes,          \* its input: the version word, or the header lines
    hpc,            \* where the reader is
    header,         \* the Header that parse_header builds
    name_i,         \* text parse_header: the next of the matched tags (1-based)
    parsed          \* the result of the reader

headerVars == <<reader, bytes, hpc, header, name_i, parsed>>

\* ------------------------------------------- function record decoder
VARIABLES
    stream,         \* the LEB128 values of the record after its file indices
    pos,            \* the next value of stream (1-based)
    dpc,            \* where parse_coverage_functions is
    expr_len,       \* the number of expressions the record announces
    expressions,    \* exprs: the expression table being built
    expr_k,         \* the expression loop's i (0-based)
    file_indices,   \* filename_indices of the record
    file_k,         \* parse_mapping_regions: the next of file_indices (1-based)
    regions_left,   \* regions of the current file index still to decode
    last_line,      \* parse_mapping_regions: last_line
    mapping,        \* parse_mapping_regions: the regions decoded so far
    decoded,        \* the FunctionRecordV3 pushed to the result
    read_words      \* history: per region reached, the header (and the two
                    \* branch counters) that were read for it

decodeVars == <<stream, pos, dpc, expr_len, expressions, expr_k, file_indices,
                file_k, regions_left, last_line, mapping, decoded, read_words>>

\* ----------------------------------------------- hash table values
VARIABLES
    rv_version,     \* read_value: version
    rv_input,       \* read_value: input, as 8-byte words from the value's start
    data_len,       \* read_value: data_len, in bytes
    consumed,       \* bytes of rv_input that `input` has moved past
    result,         \* read_value: result, the (hash, record) pairs collected
    last_hash,      \* read_value: last_hash
    rvpc,           \* where read_value is
    returned        \* what read_value returned: the rest of the input and a pair

readValueVars == <<rv_version, rv_input, data_len, consumed, result, last_hash,
                   rvpc, returned>>

\* ------------------------------------------------ raw profile counters
VARIABLES
    profile_header,     \* the raw Header: version, flags, counters_len, paddings, delta
    data_section,   \* the ProfileData entries parsed before the counters
    raw_bytes,      \* the input from the start of the counters section on
    cursor_at,      \* bytes of raw_bytes that `input` has moved past
    total_offset,   \* parse_bytes: total_offset
    counters_delta, \* parse_bytes: counters_delta
    data_k,         \* the next entry of data_section (1-based)
    counters,       \* parse_bytes: the records read so far
    rcpc,           \* where parse_bytes is
    calls           \* history: per read_raw_counts call its offset, the cursor
                    \* and the delta it was made with, and how it ended

rawCountsVars == <<profile_header, data_section, raw_bytes, cursor_at, total_offset,
                   counters_delta, data_k, counters, rcpc, calls>>

\* ------------------------------------------------------- path lists
VARIABLES
    pl_entries,     \* the entries of a filename list, as written
    pl_version,     \* the coverage mapping version
    pl_plain,       \* parse_path_list's result on the uncompressed list
    pl_deflated     \* parse_path_list's result on the list in a deflate envelope

pathListVars == <<pl_entries, pl_version, pl_plain, pl_deflated>>

\* ----------------------------------------------- profile data sections
VARIABLES
    prf_data,       \* the prf_data section, as 8-byte words
    prf_cnts,       \* the prf_cnts section, as 8-byte words
    pd_at,          \* parse_profile_data: bytes of the section that `bytes` is past
    pd_res,         \* parse_profile_data: res
    pdpc,           \* where parse_profile_data is
    prof_counts     \* what parse_profile_counters returned

profileDataVars == <<prf_data, prf_cnts, pd_at, pd_res, pdpc, prof_counts>>

\* ------------------------------------------------- remapping arguments
VARIABLES
    fs_input,       \* from_str: s, as a sequence of characters
    fspc,           \* where from_str is
    fs_result       \* what from_str returned: a PathRemapping or an error

fromStrVars == <<fs_input, fspc, fs_result>>

vars == <<evalVars, mergeVars, remapVars, headerVars, decodeVars, readValueVars, rawCountsVars, pathListVars, profileDataVars, fromStrVars>>

\* What an action of the evaluator, of merge, of apply_remapping and of a
\* reader leaves alone.
notEvalVars == <<mergeVars, remapVars, headerVars, decodeVars, readValueVars, rawCountsVars, pathListVars, profileDataVars, fromStrVars>>

notMergeVars == <<evalVars, remapVars, headerVars, decodeVars, readValueVars, rawCountsVars, pathListVars, profileDataVars, fromStrVars>>

notRemapVars == <<evalVars, mergeVars, headerVars, decodeVars, readValueVars, rawCountsVars, pathListVars, profileDataVars, fromStrVars>>

notHeaderVars == <<evalVars, mergeVars, remapVars, decodeVars, readValueVars, rawCountsVars, pathListVars, profileDataVars, fromStrVars>>

notDecodeVars == <<evalVars, mergeVars, remapVars, headerVars, readValueVars, rawCountsVars, pathListVars, profileDataVars, fromStrVars>>

notReadValueVars == <<evalVars, mergeVars, remapVars, headerVars, decodeVars, rawCountsVars, pathListVars, profileDataVars, fromStrVars>>

notRawCountsVars == <<evalVars, mergeVars, remapVars, headerVars, decodeVars, readValueVars, pathListVars, profileDataVars, fromStrVars>>

notPathListVars == <<evalVars, mergeVars, remapVars, headerVars, decodeVars, readValueVars, rawCountsVars, profileDataVars, fromStrVars>>

notProfileDataVars == <<evalVars, mergeVars, remapVars, headerVars, decodeVars, readValueVars, rawCountsVars, pathListVars, fromStrVars>>

notFromStrVars == <<evalVars, mergeVars, remapVars, headerVars, decodeVars, readValueVars, rawCountsVars, pathListVars, profileDataVars>>

\* apply_remapping is not running.
RemapIdle ==
    /\ report_files = EmptyMap /\ files_before = EmptyMap
    /\ remapping = [source |-> EmptyPath, dest |-> EmptyPath]
    /\ inputs = <<>> /\ input_i = 0 /\ rpc = "idle"

\* No reader is running.
HeaderIdle ==
    /\ reader = "none" /\ bytes = <<>> /\ hpc = "idle"
    /\ header = EmptyMap /\ name_i = 0 /\ parsed = {}

\* parse_coverage_functions is not running.
DecodeIdle ==
    /\ stream = <<>> /\ pos = 0 /\ dpc = "idle" /\ expr_len = 0
    /\ expressions = <<>> /\ expr_k = 0 /\ file_indices = <<>> /\ file_k = 0
    /\ regions_left = 0 /\ last_line = 0 /\ mapping = <<>> /\ decoded = {}
    /\ read_words = <<>>

\* read_value is not running.
ReadValueIdle ==
    /\ rv_version = 0 /\ rv_input = <<>> /\ data_len = 0 /\ consumed = 0
    /\ result = <<>> /\ last_hash = 0 /\ rvpc = "idle" /\ returned = {}

\* The raw reader is not in its counters loop.
RawCountsIdle ==
    /\ profile_header = EmptyMap /\ data_section = <<>> /\ raw_bytes = <<>>
    /\ cursor_at = 0 /\ total_offset = 0 /\ counters_delta = 0 /\ data_k = 0
    /\ counters = <<>> /\ rcpc = "idle" /\ calls = <<>>

\* parse_path_list is not running.
PathListIdle ==
    /\ pl_entries = <<>> /\ pl_version = 0 /\ pl_plain = {} /\ pl_deflated = {}

\* parse_profile_data is not running.
ProfileDataIdle ==
    /\ prf_data = <<>> /\ prf_cnts = <<>> /\ pd_at = 0 /\ pd_res = <<>>
    /\ pdpc = "idle" /\ prof_counts = {}

\* from_str is not running.
FromStrIdle == fs_input = <<>> /\ fspc = "idle" /\ fs_result = {}

\* InstrumentationProfile::default()
DefaultProfile == [version |-> {}, records |-> <<>>, by_name |-> EmptyMap, symtab |-> EmptyMap]

NoOutcome == [kind |-> "none", into |-> 0, record |-> 0]

\* No merge is running.
MergeIdle ==
    /\ in_a = DefaultProfile /\ in_b = DefaultProfile /\ in_c = DefaultProfile
    /\ stage = "idle" /\ mpc = "idle"
    /\ self = DefaultProfile /\ other = DefaultProfile
    /\ cursor = 0 /\ before = DefaultProfile /\ outcome = NoOutcome
    /\ results = EmptyMap

\* The records that have the function's fn_hash, whatever their name_hash.
records_with_fn_hash(func) ==
    {k \in 1..Len(profile.records) : profile.records[k].hash = {func.header.fn_hash}}

\* CoverageMapping::get_simple_counters: the first record of the profile
\* with the function's fn_hash and name_hash.
matching_records(func) ==
    {k \in 1..Len(profile.records) :
        /\ profile.records[k].hash = {func.header.fn_hash}
        /\ {func.header.name_hash} = profile.records[k].name_hash}

find_record(func) ==
    LET ks == matching_records(func)
    IN  IF ks = {} THEN {} ELSE {CHOOSE k \in ks : \A j \in ks : k <= j}

get_simple_counters(func) ==
    LET record == find_record(func)
        base == Put(EmptyMap, DefaultCounter, 0)
    IN  IF record = {} THEN base
        ELSE LET counts == profile.records[CHOOSE k \in record : TRUE].counts
             IN  [c \in {DefaultCounter} \cup {Instrumentation(id - 1) : id \in 1..Len(counts)} |->
                    IF c = DefaultCounter THEN 0 ELSE AsI64(counts[c.id + 1])]

\* region_ids.get(&counter)
get(map, counter) == IF counter \in DOMAIN map THEN {map[counter]} ELSE {}

\* `lhs - rhs` / `lhs + rhs` on i64: exact when it fits; on overflow a build
\* with overflow checks panics and a build without wraps.
arith(kind, lhs, rhs) ==
    LET exact == IF kind = Subtract THEN lhs - rhs ELSE lhs + rhs
    IN  IF exact >= I64Min /\ exact <= I64Max
        THEN {[panic |-> FALSE, count |-> exact]}
        ELSE {[panic |-> TRUE, count |-> 0],
              [panic |-> FALSE, count |-> WrapI64(exact)]}

\* func.regions.iter().find(|x| x.count.is_expression() && x.count.id == expr_index)
find_expr_region(func, expr_index) ==
    LET js == {j \in 1..Len(func.regions) :
                  /\ is_expression(func.regions[j].count)
                  /\ func.regions[j].count.id = expr_index}
    IN  IF js = {} THEN {} ELSE {CHOOSE j \in js : \A k \in js : j <= k}

Emission(fi, j, path, loc, count, expr_index) ==
    [func |-> fi, region |-> j, path |-> path, loc |-> loc, count |-> count,
     expr |-> expr_index]

CurrentFunc == cov_fun[func_i]

\* The resolved arm of both loops after `count` is computed: record the
\* expression's value and emit the region find_expr_region gives; next_pc is where
\* the loop goes on.
resolve(func, expr_index, count, next_pc) ==
    LET counter == Counter(Expression, func.expressions[expr_index + 1].kind, expr_index)
        found == find_expr_region(func, expr_index)
    IN  /\ region_ids' = Put(region_ids, counter, count)
        /\ IF found = {}
           THEN /\ pc' = next_pc
                /\ UNCHANGED <<report, emitted>>
           ELSE LET j == CHOOSE x \in found : TRUE
                    region == func.regions[j]
                IN  IF region.file_id >= Len(paths)
                    THEN /\ pc' = "panic_index"
                         /\ UNCHANGED <<report, emitted>>
                    ELSE /\ pc' = next_pc
                         /\ report' = report_insert(report, paths[region.file_id + 1],
                                                    region.loc, AsUsize(count))
                         /\ emitted' = emitted \cup
                               {Emission(func_i, j, paths[region.file_id + 1],
                                         region.loc, AsUsize(count), expr_index)}

\* generate_report, top of the loop over cov_fun: the base counters and the
\* paths; a function without paths is skipped.
BeginFunction ==
    /\ UNCHANGED notEvalVars
    /\ pc = "start"
    /\ func_i <= Len(cov_fun)
    /\ LET func == CurrentFunc
           files == get_files_from_id(cov_map, func.header.filenames_ref)
       IN  IF files = <<>>
           THEN /\ func_i' = func_i + 1
                /\ UNCHANGED <<pc, paths, region_ids, region_i>>
           ELSE /\ pc' = "simple"
                /\ paths' = files
                /\ region_ids' = get_simple_counters(func)
                /\ region_i' = 1
                /\ UNCHANGED func_i
    /\ UNCHANGED <<profile, cov_map, cov_fun, expr_i, pending_exprs, index,
                   tries_left, report, emitted, passes>>

\* generate_report returns the report.
Finish ==
    /\ UNCHANGED notEvalVars
    /\ pc = "start"
    /\ func_i > Len(cov_fun)
    /\ pc' = "done"
    /\ UNCHANGED <<profile, cov_map, cov_fun, func_i, region_i, expr_i, paths,
                   region_ids, pending_exprs, index, tries_left, report, emitted, passes>>

\* One iteration of the loop over func.regions that emits the regions whose
\* counter is not an expression.
EmitSimpleRegion ==
    /\ UNCHANGED notEvalVars
    /\ pc = "simple"
    /\ region_i <= Len(CurrentFunc.regions)
    /\ LET region == CurrentFunc.regions[region_i]
           found == get(region_ids, region.count)
           count == IF found = {} THEN 0 ELSE CHOOSE v \in found : TRUE
       IN  IF is_expression(region.count)
           THEN /\ region_i' = region_i + 1
                /\ UNCHANGED <<pc, report, emitted>>
           ELSE IF region.file_id >= Len(paths)
                THEN /\ pc' = "panic_index"
                     /\ UNCHANGED <<region_i, report, emitted>>
                ELSE /\ report' = report_insert(report, paths[region.file_id + 1],
                                                region.loc, AsUsize(count))
                     /\ emitted' = emitted \cup
                           {Emission(func_i, region_i, paths[region.file_id + 1],
                                     region.loc, AsUsize(count), -1)}
                     /\ region_i' = region_i + 1
                     /\ UNCHANGED pc
    /\ UNCHANGED <<profile, cov_map, cov_fun, func_i, expr_i, paths, region_ids,
                   pending_exprs, index, tries_left, passes>>

\* The loop over the regions is over: start the first pass over the expressions.
BeginExpressions ==
    /\ UNCHANGED notEvalVars
    /\ pc = "simple"
    /\ region_i > Len(CurrentFunc.regions)
    /\ pc' = "first"
    /\ expr_i' = 0
    /\ pending_exprs' = <<>>
    /\ UNCHANGED <<profile, cov_map, cov_fun, func_i, region_i, paths, region_ids,
                   index, tries_left, report, emitted, passes>>

\* One iteration of the first pass over func.expressions.
EvalExpression ==
    /\ UNCHANGED notEvalVars
    /\ pc = "first"
    /\ expr_i < Len(CurrentFunc.expressions)
    /\ LET func == CurrentFunc
           expr == func.expressions[expr_i + 1]
           lhs == get(region_ids, expr.lhs)
           rhs == get(region_ids, expr.rhs)
       IN  IF lhs # {} /\ rhs # {}
           THEN \E out \in arith(expr.kind, CHOOSE v \in lhs : TRUE, CHOOSE v \in rhs : TRUE) :
                   IF out.panic
                   THEN /\ pc' = "panic_overflow"
                        /\ UNCHANGED <<region_ids, report, emitted, pending_exprs, expr_i>>
                   ELSE /\ resolve(func, expr_i, out.count, "first")
                        /\ expr_i' = expr_i + 1
                        /\ UNCHANGED pending_exprs
           ELSE LET with_lhs == IF lhs = {} /\ is_instrumentation(expr.lhs)
                                THEN Put(region_ids, expr.lhs, 0) ELSE region_ids
                    with_rhs == IF rhs = {} /\ is_instrumentation(expr.rhs)
                                THEN Put(with_lhs, expr.rhs, 0) ELSE with_lhs
                IN  /\ region_ids' = with_rhs
                    /\ pending_exprs' = Append(pending_exprs, expr_i)
                    /\ expr_i' = expr_i + 1
                    /\ UNCHANGED <<pc, report, emitted>>
    /\ UNCHANGED <<profile, cov_map, cov_fun, func_i, region_i, paths, index,
                   tries_left, passes>>

\* The first pass is over: set up the pending loop.
BeginPending ==
    /\ UNCHANGED notEvalVars
    /\ pc = "first"
    /\ expr_i >= Len(CurrentFunc.expressions)
    /\ pc' = "pending"
    /\ index' = 0
    /\ tries_left' = Len(pending_exprs) + 1
    /\ passes' = IF pending_exprs = <<>> THEN 0 ELSE 1
    /\ UNCHANGED <<profile, cov_map, cov_fun, func_i, region_i, expr_i, paths,
                   region_ids, pending_exprs, report, emitted>>

\* pending_exprs.remove(index), index 0-based
remove(seq, i) == SubSeq(seq, 1, i) \o SubSeq(seq, i + 2, Len(seq))

\* One iteration of `while !pending_exprs.is_empty()`.
PendingStep ==
    /\ UNCHANGED notEvalVars
    /\ pc = "pending"
    /\ pending_exprs # <<>>
    /\ IF tries_left = 0
       THEN /\ pc' = "panic_assert"
            /\ UNCHANGED <<region_ids, pending_exprs, index, tries_left, report,
                           emitted, passes>>
       ELSE LET wrapped == index >= Len(pending_exprs)
                idx == IF wrapped THEN 0 ELSE index
                func == CurrentFunc
                expr_index == pending_exprs[idx + 1]
                expr == func.expressions[expr_index + 1]
                lhs == get(region_ids, expr.lhs)
                rhs == get(region_ids, expr.rhs)
            IN  /\ tries_left' = IF wrapped THEN tries_left - 1 ELSE tries_left
                /\ passes' = IF wrapped THEN passes + 1 ELSE passes
                /\ IF lhs # {} /\ rhs # {}
                   THEN \E out \in arith(expr.kind, CHOOSE v \in lhs : TRUE,
                                         CHOOSE v \in rhs : TRUE) :
                           IF out.panic
                           THEN /\ pc' = "panic_overflow"
                                /\ UNCHANGED <<region_ids, report, emitted,
                                               pending_exprs, index>>
                           ELSE /\ resolve(func, expr_index, out.count, "pending")
                                /\ pending_exprs' = remove(pending_exprs, idx)
                                /\ index' = idx
                   ELSE /\ index' = idx + 1
                        /\ UNCHANGED <<pc, region_ids, pending_exprs, report, emitted>>
    /\ UNCHANGED <<profile, cov_map, cov_fun, func_i, region_i, expr_i, paths>>

\* The pending list is empty: on to the next function record.
EndFunction ==
    /\ UNCHANGED notEvalVars
    /\ pc = "pending"
    /\ pending_exprs = <<>>
    /\ pc' = "start"
    /\ func_i' = func_i + 1
    /\ UNCHANGED <<profile, cov_map, cov_fun, region_i, expr_i, paths, region_ids,
                   pending_exprs, index, tries_left, report, emitted, passes>>

\* --------------------------------------------------- evaluator's inputs
\* Every encoded counter with an id up to MaxId (tag in bits 0-1, id above).
EncodedCounters == {tag + 4 * id : tag \in 0..3, id \in 0..MaxId}

SeqsUpTo(S, lo, hi) == UNION {[1..n -> S] : n \in lo..hi}

\* The count vectors of the profile record.
CountVectors == SeqsUpTo(0..U64Max, 0, MaxCounts)

NameHashA == "name_hash_a"
NameHashB == "name_hash_b"
FnHashA == "fn_hash_a"
RefOne == "ref_one"
RefTwo == "ref_two"
RefMissing == "ref_missing"

\* cov_map of the object file: one list with a single absolute path, one with
\* an absolute directory and a relative file.
CovMap ==
    [r \in {RefOne, RefTwo} |->
        IF r = RefOne THEN <<PathBuf(TRUE, <<"src", "main.rs">>)>>
        ELSE <<PathBuf(TRUE, <<"src">>), PathBuf(FALSE, <<"lib.rs">>)>>]

ProfileRecord(name_hash, hash, counts) ==
    [name_hash |-> name_hash, hash |-> hash, counts |-> counts]

\* A record with the function's fn_hash and another name_hash, ahead of the
\* function's own record.
OtherRecord == ProfileRecord({NameHashB}, {FnHashA}, <<U64Max>>)

\* The function record that follows the one under study in cov_fun.
LastFunction == FunctionRecordV3(NameHashA, FnHashA, RefOne, 0, <<>>, <<1>>)

\* Seed scenario 6 of the specification: E0 = I0 - I1, E1 = E0 + I2, and
\* one region on E1.
SeedExprs == <<<<1, 5>>, <<3, 9>>>>
SeedRegions == <<7>>

\* Count vectors that only differ in which counters are present.
PresenceVectors == {[k \in 1..n |-> 1] : n \in 0..MaxCounts}

\* The encoded counters that refer to an expression (tags 2 and 3).
ExpressionHeaders == {e \in EncodedCounters : e % 4 >= 2}

Operands == EncodedCounters \X EncodedCounters

\* The profile in which the function's record has the counts c.
Matched(c) == [records |-> <<OtherRecord, ProfileRecord({NameHashA}, {FnHashA}, c)>>]

\* The profile without a record for the function.
Unmatched == [records |-> <<OtherRecord>>]

\* Small functions (ne expressions plus nr regions, at most MaxExprs in all)
\* come with every count vector, every filename list and file index, and are
\* followed by another function; larger ones (MaxExprs + 1 in all) come with
\* the presence patterns of the counters.
Small(ne, nr) == ne + nr <= MaxExprs

RegionHeaders(ne) == IF ne = MaxExprs THEN ExpressionHeaders ELSE EncodedCounters

FileChoices(ne, nr) ==
    IF Small(ne, nr)
    THEN {<<RefOne, 0>>, <<RefOne, 1>>, <<RefTwo, 1>>, <<RefMissing, 0>>}
    ELSE {<<RefOne, 0>>}

Profiles(ne, nr) ==
    IF Small(ne, nr)
    THEN {Unmatched} \cup {Matched(c) : c \in CountVectors}
    ELSE {Matched(c) : c \in PresenceVectors}

FollowedBy(ne, nr) == IF Small(ne, nr) THEN <<LastFunction>> ELSE <<>>

\* The state at the call of generate_report on the function with the encoded
\* expressions e and region headers r.
Start(e, r, f, p, tail) ==
    /\ profile = p
    /\ cov_fun = <<FunctionRecordV3(NameHashA, FnHashA, f[1], f[2], e, r)>> \o tail
    /\ cov_map = CovMap
    /\ pc = "start"
    /\ func_i = 1
    /\ region_i = 1
    /\ expr_i = 0
    /\ paths = <<>>
    /\ region_ids = EmptyMap
    /\ pending_exprs = <<>>
    /\ index = 0
    /\ tries_left = 0
    /\ report = EmptyMap
    /\ emitted = {}
    /\ passes = 0
    /\ MergeIdle
    /\ RemapIdle
    /\ HeaderIdle
    /\ DecodeIdle
    /\ ReadValueIdle
    /\ RawCountsIdle
    /\ PathListIdle
    /\ ProfileDataIdle
    /\ FromStrIdle

Init ==
    \/ \E ne \in 0..MaxExprs, nr \in 1..MaxRegions :
          /\ ne + nr <= MaxExprs + 1
          /\ \E e \in [1..ne -> Operands], r \in [1..nr -> RegionHeaders(ne)],
                f \in FileChoices(ne, nr), p \in Profiles(ne, nr) :
                Start(e, r, f, p, FollowedBy(ne, nr))
    \/ \E c \in PresenceVectors :
          Start(SeedExprs, SeedRegions, <<RefOne, 0>>, Matched(c), <<>>)

Next ==
    \/ BeginFunction
    \/ EmitSimpleRegion
    \/ BeginExpressions
    \/ EvalExpression
    \/ BeginPending
    \/ PendingStep
    \/ EndFunction
    \/ Finish

Spec == Init /\ [][Next]_vars

\* --------------------------------------------------------- merge: model
\* compute_hash: the first 8 bytes of the name's MD5, little endian.
compute_hash(name) == <<"md5_le", name>>

\* compute_be_hash: the same bytes, big endian.
compute_be_hash(name) == <<"md5_be", name>>

\* u64::wrapping_add
wrapping_add(a, b) == (a + b) % Pow2

\* u64::checked_add, with None replaced by u64::MAX
checked_add_or_max(a, b) == IF a + b > U64Max THEN U64Max ELSE a + b

\* NamedInstrProfRecord with its InstrProfRecord flattened: counts, and the
\* value profile `data` (None, or one ValueProfDataRecord).
NamedInstrProfRecord(name, name_hash, hash, counts, data) ==
    [name |-> name, name_hash |-> name_hash, hash |-> hash, counts |-> counts,
     data |-> data]

InstrProfValueData(value, count) == [value |-> value, count |-> count]

ValueProfDataRecord(indirect_callsites, mem_op_sizes) ==
    [indirect_callsites |-> indirect_callsites, mem_op_sizes |-> mem_op_sizes]

\* Vec::insert
InsertAt(s, p, x) == SubSeq(s, 1, p - 1) \o <<x>> \o SubSeq(s, p, Len(s))

\* sort_unstable of a site: InstrProfValueData is ordered by value alone, and
\* a slice this short is sorted by insertion, entries of equal value keeping
\* their order.
RECURSIVE sort_unstable(_)
sort_unstable(s) ==
    IF s = <<>> THEN s
    ELSE LET sorted == sort_unstable(SubSeq(s, 1, Len(s) - 1))
             x == s[Len(s)]
             p == 1 + Cardinality({k \in 1..Len(sorted) : sorted[k].value <= x.value})
         IN  InsertAt(sorted, p, x)

\* merge_site_records: the loop `for j in src`, at src[k], with i entries of
\* dst skipped.
RECURSIVE merge_site_loop(_, _, _, _)
merge_site_loop(dst, src, k, i) ==
    IF k > Len(src) THEN dst
    ELSE LET j == src[k]
             current == {p \in (i + 1)..Len(dst) : dst[p].value >= j.value}
         IN  IF current = {}
             THEN merge_site_loop(Append(dst, j), src, k + 1, Len(dst))
             ELSE LET at == CHOOSE p \in current : \A q \in current : p <= q
                  IN  IF dst[at].value = j.value
                      THEN merge_site_loop(
                               InsertAt([dst EXCEPT ![at].count =
                                                        checked_add_or_max(@, j.count)],
                                        at + 1, j),
                               src, k + 1, at)
                      ELSE merge_site_loop(InsertAt(dst, at, j), src, k + 1, at)

\* merge_site_records
merge_site_records(dst, src) ==
    IF Len(dst) = Len(src) THEN merge_site_loop(sort_unstable(dst), src, 1, 0)
    ELSE dst

\* InstrProfRecord::merge, the sites of one value kind.
merge_sites(own, theirs) ==
    IF Len(own) = Len(theirs)
    THEN [k \in 1..Len(own) |-> merge_site_records(own[k], theirs[k])]
    ELSE own

\* Symtab::contains
contains(symtab, hash) == hash \in DOMAIN symtab

\* Symtab::add_func_name
add_func_name(symtab, name, big_endian) ==
    Put(symtab, IF big_endian THEN compute_be_hash(name) ELSE compute_hash(name), name)

\* NamedInstrProfRecords::get_by_name_mut: the index of the record.
get_by_name_mut(p, name) == IF name \in DOMAIN p.by_name THEN {p.by_name[name]} ELSE {}

\* NamedInstrProfRecords::push (of its indexes, by_name is the one merge reads).
push(p, rec) ==
    [p EXCEPT !.records = Append(@, rec),
              !.by_name = IF rec.name = {} THEN @
                          ELSE Put(@, CHOOSE n \in rec.name : TRUE, Len(p.records) + 1)]

\* A merge of records that does not look at the lengths of the count vectors.
merge_ignoring_length(own, theirs) ==
    [own EXCEPT
        !.counts = [k \in 1..Len(@) |->
                        IF k <= Len(theirs.counts)
                        THEN checked_add_or_max(@[k], theirs.counts[k]) ELSE @[k]],
        !.data = IF own.data = {} \/ theirs.data = {} THEN @
                 ELSE LET o == CHOOSE d \in own.data : TRUE
                          t == CHOOSE d \in theirs.data : TRUE
                      IN  {ValueProfDataRecord(
                              merge_sites(o.indirect_callsites, t.indirect_callsites),
                              merge_sites(o.mem_op_sizes, t.mem_op_sizes))}]

\* InstrProfRecord::merge
InstrProfRecord_merge(own, theirs) ==
    IF Len(own.counts) # Len(theirs.counts) THEN own
    ELSE [own EXCEPT
            !.counts = [k \in 1..Len(@) |-> checked_add_or_max(@[k], theirs.counts[k])],
            !.data = IF own.data = {} \/ theirs.data = {} THEN @
                     ELSE LET o == CHOOSE d \in own.data : TRUE
                              t == CHOOSE d \in theirs.data : TRUE
                          IN  {ValueProfDataRecord(
                                  merge_sites(o.indirect_callsites, t.indirect_callsites),
                                  merge_sites(o.mem_op_sizes, t.mem_op_sizes))}]

\* InstrumentationProfile::merge_record: whether the lookup branch reached
\* get_by_name_mut (the symbol table holds the name's hash, or else the
\* record's fn_hash).
lookup_reached(p, record) ==
    LET hash == compute_hash(CHOOSE n \in record.name : TRUE)
    IN  \/ contains(p.symtab, hash)
        \/ \E alt_hash \in record.hash : contains(p.symtab, alt_hash)

\* InstrumentationProfile::merge_record: the record of p that `record` is
\* merged into (`added`), if any.
merge_target(p, record) ==
    IF record.name = {} THEN {}
    ELSE IF lookup_reached(p, record)
         THEN get_by_name_mut(p, CHOOSE n \in record.name : TRUE)
         ELSE {}

\* InstrumentationProfile::merge_record
merge_record(p, record) ==
    IF record.name = {} THEN p
    ELSE LET name == CHOOSE n \in record.name : TRUE
             target == merge_target(p, record)
         IN  IF target # {}
             THEN LET i == CHOOSE x \in target : TRUE
                  IN  [p EXCEPT !.records[i] = InstrProfRecord_merge(@, record)]
             ELSE push([p EXCEPT !.symtab = Put(@, compute_hash(name), name)], record)

\* What merge_record(p, record) did, for the history variable.
merge_outcome(p, record) ==
    LET target == merge_target(p, record)
    IN  IF record.name = {} THEN [kind |-> "skipped", into |-> 0, record |-> record]
        ELSE IF target # {}
             THEN [kind |-> "merged", into |-> CHOOSE x \in target : TRUE, record |-> record]
             ELSE [kind |-> "appended", into |-> Len(p.records) + 1, record |-> record]

\* The merges run in the order "ab", "abc", "bc", "a_bc", "ba"; the two
\* profiles each of them merges.
StageSelf(st) ==
    CASE st = "ab" -> in_a
      [] st = "abc" -> results["ab"]
      [] st = "bc" -> in_b
      [] st = "a_bc" -> in_a
      [] st = "ba" -> in_b

StageOther(st) ==
    CASE st = "ab" -> in_b
      [] st = "abc" -> in_c
      [] st = "bc" -> in_c
      [] st = "a_bc" -> results["bc"]
      [] st = "ba" -> in_a

NextStage(st) ==
    CASE st = "ab" -> "abc"
      [] st = "abc" -> "bc"
      [] st = "bc" -> "a_bc"
      [] st = "a_bc" -> "ba"
      [] st = "ba" -> "end"

\* InstrumentationProfile::merge is called on a clone of the stage's first
\* profile: the version is taken from `other` when self has none.
merge ==
    /\ UNCHANGED notMergeVars
    /\ mpc = "call"
    /\ LET s == StageSelf(stage)
           o == StageOther(stage)
       IN  /\ self' = IF s.version = {} /\ o.version # {}
                      THEN [s EXCEPT !.version = o.version] ELSE s
           /\ other' = o
    /\ cursor' = 1
    /\ mpc' = "records"
    /\ before' = DefaultProfile
    /\ outcome' = NoOutcome
    /\ UNCHANGED <<in_a, in_b, in_c, stage, results>>

\* One iteration of `for func in other.records.records()`.
MergeRecord ==
    /\ UNCHANGED notMergeVars
    /\ mpc = "records"
    /\ cursor <= Len(other.records)
    /\ self' = merge_record(self, other.records[cursor])
    /\ before' = self
    /\ outcome' = merge_outcome(self, other.records[cursor])
    /\ cursor' = cursor + 1
    /\ UNCHANGED <<in_a, in_b, in_c, stage, mpc, other, results>>

\* merge returns: the result is kept and the next stage is set up.
MergeReturn ==
    /\ UNCHANGED notMergeVars
    /\ mpc = "records"
    /\ cursor > Len(other.records)
    /\ results' = Put(results, stage, self)
    /\ stage' = NextStage(stage)
    /\ mpc' = IF NextStage(stage) = "end" THEN "end" ELSE "call"
    /\ UNCHANGED <<in_a, in_b, in_c, self, other, cursor, before, outcome>>


\* -------------------------------------------------------- merge: inputs
\* One record as a reader meets it: its name, its fn_hash, its counts and its
\* value profile.
RecordInput(name, hash, counts, data) ==
    [name |-> name, hash |-> hash, counts |-> counts, data |-> data]

\* TextInstrProf::parse_bytes: every record carries its name and fn_hash, no
\* name_hash; the symbol table is keyed by the fn_hash; no version.
RECURSIVE text_records(_, _, _)
text_records(recs, k, p) ==
    IF k > Len(recs) THEN p
    ELSE text_records(recs, k + 1,
            [push(p, NamedInstrProfRecord({recs[k].name}, {}, {recs[k].hash}, recs[k].counts,
                                      recs[k].data))
                EXCEPT !.symtab = Put(@, recs[k].hash, recs[k].name)])

TextProfile(recs) == text_records(recs, 1, DefaultProfile)

\* IndexedInstrProf::parse_bytes: every record carries its name, the name's
\* little-endian hash and its fn_hash; the symbol table is keyed by the
\* name's little-endian hash.
RECURSIVE indexed_records(_, _, _)
indexed_records(recs, k, p) ==
    IF k > Len(recs) THEN p
    ELSE indexed_records(recs, k + 1,
            push([p EXCEPT !.symtab = add_func_name(@, recs[k].name, FALSE)],
                 NamedInstrProfRecord({recs[k].name}, {compute_hash(recs[k].name)},
                                      {recs[k].hash}, recs[k].counts, recs[k].data)))

IndexedProfile(recs) == indexed_records(recs, 1, [DefaultProfile EXCEPT !.version = {10}])

\* RawInstrProf::parse_bytes: the symbol table holds the names of the names
\* section under the hash of the header's endianness; a record whose name_ref
\* is in the table gets its name, name_ref and fn_hash, any other record gets
\* none of the three; no record gets a value profile.
RECURSIVE raw_symtab(_, _, _)
raw_symtab(names, big_endian, symtab) ==
    IF names = {} THEN symtab
    ELSE LET n == CHOOSE x \in names : TRUE
         IN  raw_symtab(names \ {n}, big_endian, add_func_name(symtab, n, big_endian))

RECURSIVE raw_records(_, _, _, _)
raw_records(recs, big_endian, k, p) ==
    IF k > Len(recs) THEN p
    ELSE LET name_ref == IF big_endian THEN compute_be_hash(recs[k].name)
                         ELSE compute_hash(recs[k].name)
             rec == IF contains(p.symtab, name_ref)
                    THEN NamedInstrProfRecord({p.symtab[name_ref]}, {name_ref},
                                              {recs[k].hash}, recs[k].counts, {})
                    ELSE NamedInstrProfRecord({}, {}, {}, recs[k].counts, {})
         IN  raw_records(recs, big_endian, k + 1, push(p, rec))

RawProfile(names, recs, big_endian) ==
    raw_records(recs, big_endian, 1,
                [DefaultProfile EXCEPT !.version = {8},
                                       !.symtab = raw_symtab(names, big_endian, EmptyMap)])

MaxRecords == 2

Names == {"f", "g"}

FnHashes == {<<"fn", "h1">>, <<"fn", "h2">>}

\* Count vectors of two lengths, one of them with a count that saturates.
MergeCounts == {<<1>>, <<U64Max>>, <<1, 1>>}

ShortCounts == {<<1>>, <<1, 1>>}

RecordInputs(counts) ==
    {RecordInput(n, h, c, {}) : n \in Names, h \in FnHashes, c \in counts}

\* The profiles the readers give for up to n records over the given counts:
\* text, indexed, raw big-endian with every name in the names section, and
\* raw with an empty names section.
ReaderProfiles(n, counts) ==
    LET lists == SeqsUpTo(RecordInputs(counts), 0, n)
    IN  {TextProfile(r) : r \in lists}
        \cup {IndexedProfile(r) : r \in lists}
        \cup {RawProfile(Names, r, TRUE) : r \in lists}
        \cup {RawProfile({}, r, FALSE) : r \in lists}

\* The sites of a value kind: up to two entries over two values, one count
\* of which saturates.
Sites ==
    SeqsUpTo({InstrProfValueData(v, c) : v \in {1, 2}, c \in {1, U64Max}}, 0, 2)

\* The value profiles of a record: none, or at most one indirect-call site
\* and at most one memory-operation site.
DataInputs ==
    {{}} \cup {{ValueProfDataRecord(ic, mo)} :
                  ic \in SeqsUpTo(Sites, 0, 1),
                  mo \in {<<>>, << <<InstrProfValueData(1, 1)>> >>}}

\* The evaluator is not running.
EvalIdle ==
    /\ profile = [records |-> <<>>]
    /\ cov_map = EmptyMap
    /\ cov_fun = <<>>
    /\ pc = "idle"
    /\ func_i = 1
    /\ region_i = 1
    /\ expr_i = 0
    /\ paths = <<>>
    /\ region_ids = EmptyMap
    /\ pending_exprs = <<>>
    /\ index = 0
    /\ tries_left = 0
    /\ report = EmptyMap
    /\ emitted = {}
    /\ passes = 0

\* The state before the first merge of the profiles a, b and c.
MergeStart(a, b, c) ==
    /\ in_a = a /\ in_b = b /\ in_c = c
    /\ stage = "ab" /\ mpc = "call"
    /\ self = DefaultProfile /\ other = DefaultProfile
    /\ cursor = 0 /\ before = DefaultProfile /\ outcome = NoOutcome
    /\ results = EmptyMap
    /\ EvalIdle
    /\ RemapIdle
    /\ HeaderIdle
    /\ DecodeIdle
    /\ ReadValueIdle
    /\ RawCountsIdle
    /\ PathListIdle
    /\ ProfileDataIdle
    /\ FromStrIdle

\* A profile merged with itself; a profile of at most one record merged with
\* one of up to MaxRecords records; three profiles of at most one record; two
\* profiles whose records of the same name carry value profiles.
InitMerge ==
    \/ \E p \in ReaderProfiles(MaxRecords, MergeCounts) :
          MergeStart(p, p, DefaultProfile)
    \/ \E a \in ReaderProfiles(1, MergeCounts), b \in ReaderProfiles(MaxRecords, ShortCounts) :
          MergeStart(a, b, DefaultProfile)
    \/ \E a \in ReaderProfiles(1, ShortCounts), b \in ReaderProfiles(1, ShortCounts),
          c \in ReaderProfiles(1, ShortCounts) :
          MergeStart(a, b, c)
    \/ \E da \in DataInputs, db \in DataInputs, cb \in ShortCounts, text \in BOOLEAN,
          more \in {<<>>, <<RecordInput("f", <<"fn", "h1">>, <<1>>, {})>>} :
          LET a == <<RecordInput("f", <<"fn", "h1">>, <<1>>, da)>>
              b == <<RecordInput("f", <<"fn", "h1">>, cb, db)>> \o more
          IN  MergeStart(IndexedProfile(a),
                         IF text THEN TextProfile(b) ELSE IndexedProfile(b),
                         DefaultProfile)

NextMerge ==
    \/ merge
    \/ MergeRecord
    \/ MergeReturn

SpecMerge == InitMerge /\ [][NextMerge]_vars

\* ------------------------------------------------ path remapping: model
\* Path::starts_with: base is a prefix of path, component by component (the
\* root of an absolute path is a component).
starts_with(path, base) ==
    /\ path.abs = base.abs
    /\ Len(base.comps) <= Len(path.comps)
    /\ SubSeq(path.comps, 1, Len(base.comps)) = base.comps

\* Path::strip_prefix, for a path that starts with base.
strip_prefix(path, base) ==
    PathBuf(FALSE, SubSeq(path.comps, Len(base.comps) + 1, Len(path.comps)))

\* The names a path component takes, in their order.
ComponentNames == <<"a", "b">>

\* Ord for Path: the components compared in turn, the root before any name.
ComponentRanks(path) ==
    (IF path.abs THEN <<0>> ELSE <<>>)
        \o [k \in 1..Len(path.comps) |->
                CHOOSE r \in 1..Len(ComponentNames) : ComponentNames[r] = path.comps[k]]

RECURSIVE LexLess(_, _)
LexLess(s, t) ==
    IF t = <<>> THEN FALSE
    ELSE IF s = <<>> THEN TRUE
    ELSE IF s[1] # t[1] THEN s[1] < t[1]
    ELSE LexLess(SubSeq(s, 2, Len(s)), SubSeq(t, 2, Len(t)))

\* BTreeMap::keys: the keys in ascending order.
RECURSIVE keys(_)
keys(S) ==
    IF S = {} THEN <<>>
    ELSE LET least == CHOOSE x \in S :
                         \A y \in S \ {x} : LexLess(ComponentRanks(x), ComponentRanks(y))
         IN  <<least>> \o keys(S \ {least})

\* A removal that leaves the entry in the map.
keep_entry(m, k) == m

\* BTreeMap::remove
Remove(m, k) == [x \in (DOMAIN m) \ {k} |-> m[x]]

\* CoverageReport::apply_remapping: the keys are collected.
apply_remapping ==
    /\ UNCHANGED notRemapVars
    /\ rpc = "call"
    /\ inputs' = keys(DOMAIN report_files)
    /\ input_i' = 1
    /\ rpc' = "loop"
    /\ UNCHANGED <<report_files, remapping, files_before>>

\* One iteration of `for path in &inputs`.
RemapPath ==
    /\ UNCHANGED notRemapVars
    /\ rpc = "loop"
    /\ input_i <= Len(inputs)
    /\ LET path == inputs[input_i]
       IN  IF starts_with(path, remapping.source)
           THEN LET end == strip_prefix(path, remapping.source)
                    new_path == join(remapping.dest, end)
                IN  IF path \in DOMAIN report_files
                    THEN /\ report_files' =
                               Put(Remove(report_files, path), new_path, report_files[path])
                         /\ rpc' = rpc
                    ELSE /\ rpc' = "unreachable"
                         /\ UNCHANGED report_files
           ELSE UNCHANGED <<report_files, rpc>>
    /\ input_i' = input_i + 1
    /\ UNCHANGED <<remapping, inputs, files_before>>

\* apply_remapping returns.
RemapReturn ==
    /\ UNCHANGED notRemapVars
    /\ rpc = "loop"
    /\ input_i > Len(inputs)
    /\ rpc' = "done"
    /\ UNCHANGED <<report_files, remapping, inputs, input_i, files_before>>

\* ----------------------------------------------- path remapping: inputs
\* The paths of up to n components, absolute or relative.
PathsUpTo(abs, lo, n) ==
    {PathBuf(abs, c) : c \in SeqsUpTo({ComponentNames[r] : r \in 1..Len(ComponentNames)}, lo, n)}

MaxDepth == 3

\* The keys of a report: absolute paths of up to MaxDepth components and
\* relative ones of one component less.
ReportKeys == PathsUpTo(TRUE, 1, MaxDepth) \cup PathsUpTo(FALSE, 1, MaxDepth - 1)

\* PathRemapping::from_str: source and dest are non-empty paths.
RemappingPaths == PathsUpTo(TRUE, 0, MaxDepth - 1) \cup PathsUpTo(FALSE, 1, MaxDepth - 2)

\* The CoverageResult of a file: one range with the given count.
HitsOf(count) == Put(EmptyMap, Loc(1), count)

\* The state at the call of apply_remapping on a report of at most two files.
InitRemap ==
    /\ \E k1 \in ReportKeys, k2 \in ReportKeys, n \in 0..2, c \in 1..2 :
          report_files = [k \in (IF n = 0 THEN {} ELSE IF n = 1 THEN {k1} ELSE {k1, k2}) |->
                              IF k = k1 THEN HitsOf(1) ELSE HitsOf(c)]
    /\ files_before = report_files
    /\ \E source \in RemappingPaths, dest \in RemappingPaths :
          remapping = [source |-> source, dest |-> dest]
    /\ inputs = <<>> /\ input_i = 0 /\ rpc = "call"
    /\ EvalIdle
    /\ MergeIdle
    /\ HeaderIdle
    /\ DecodeIdle
    /\ ReadValueIdle
    /\ RawCountsIdle
    /\ PathListIdle
    /\ ProfileDataIdle
    /\ FromStrIdle

NextRemap ==
    \/ apply_remapping
    \/ RemapPath
    \/ RemapReturn

SpecRemap == InitRemap /\ [][NextRemap]_vars

\* ------------------------------------------------------ headers: model
\* The version word: the low 56 bits of the real word are LowBits bits here,
\* below the 8 variant bits (bit 56 of the real word is bit LowBits).
LowBits == 4

WordMax == 2^(LowBits + 8) - 1

VARIANT_MASKS_ALL == 255 * 2^LowBits

VARIANT_MASK_IR_PROF == 2^LowBits

VARIANT_MASK_CSIR_PROF == 2^(LowBits + 1)

VARIANT_MASK_BYTE_COVERAGE == 2^(LowBits + 4)

VARIANT_MASK_FUNCTION_ENTRY_ONLY == 2^(LowBits + 5)

VARIANT_MASK_MEMORY_PROFILE == 2^(LowBits + 6)

\* a & b
RECURSIVE BitAnd(_, _)
BitAnd(a, b) ==
    IF a = 0 \/ b = 0 THEN 0
    ELSE (a % 2) * (b % 2) + 2 * BitAnd(a \div 2, b \div 2)

\* !a
BitNot(a) == WordMax - a

\* Header::version of the raw and of the indexed header.
version(h) == BitAnd(h.version, BitNot(VARIANT_MASKS_ALL))

\* The version word as it was read.
version_field(h) == h.version

\* RawInstrProf::parse_header: the version word is kept whole; the binary ids
\* length is read from version 7 on.
RawParseHeader ==
    /\ UNCHANGED notHeaderVars
    /\ reader = "raw" /\ hpc = "parse_header"
    /\ header' = [version |-> bytes,
                  reads_binary_ids_len |-> BitAnd(bytes, BitNot(VARIANT_MASKS_ALL)) >= 7]
    /\ hpc' = "parse_bytes"
    /\ UNCHANGED <<reader, bytes, name_i, parsed>>

\* RawInstrProf::parse_bytes, up to the fields taken from the header.
RawParseBytes ==
    /\ UNCHANGED notHeaderVars
    /\ reader = "raw" /\ hpc = "parse_bytes"
    /\ LET version_num == version(header)
       IN  parsed' = {[version |-> {version_num},
                       is_ir |-> BitAnd(header.version, VARIANT_MASK_IR_PROF) # 0,
                       has_csir |-> BitAnd(header.version, VARIANT_MASK_CSIR_PROF) # 0,
                       is_byte_coverage |->
                           /\ version_num > 7
                           /\ BitAnd(header.version, VARIANT_MASK_BYTE_COVERAGE) # 0,
                       fn_entry_only |->
                           /\ version_num > 7
                           /\ BitAnd(header.version, VARIANT_MASK_FUNCTION_ENTRY_ONLY) # 0,
                       memory_profiling |->
                           /\ version_num > 7
                           /\ BitAnd(header.version, VARIANT_MASK_MEMORY_PROFILE) # 0]}
    /\ hpc' = "done"
    /\ UNCHANGED <<reader, bytes, header, name_i>>

\* IndexedInstrProf::parse_header: the version word is kept whole, and the
\* optional offsets are read when the whole word is at least 8, 9, 10.
IndexedParseHeader ==
    /\ UNCHANGED notHeaderVars
    /\ reader = "indexed" /\ hpc = "parse_header"
    /\ header' = [version |-> bytes,
                  mem_prof_offset |-> bytes >= 8,
                  binary_id_offset |-> bytes >= 9,
                  temporary_prof_traces_offset |-> bytes >= 10]
    /\ hpc' = "parse_bytes"
    /\ UNCHANGED <<reader, bytes, name_i, parsed>>

\* IndexedInstrProf::parse_bytes, up to the fields taken from the header.
IndexedParseBytes ==
    /\ UNCHANGED notHeaderVars
    /\ reader = "indexed" /\ hpc = "parse_bytes"
    /\ parsed' = {[version |-> {version_field(header)},
                   is_ir |-> BitAnd(header.version, VARIANT_MASK_IR_PROF) > 0,
                   has_csir |-> BitAnd(header.version, VARIANT_MASK_CSIR_PROF) > 0,
                   is_byte_coverage |-> FALSE,
                   fn_entry_only |-> FALSE,
                   memory_profiling |-> FALSE]}
    /\ hpc' = "done"
    /\ UNCHANGED <<reader, bytes, header, name_i>>

\* The text reader: a header line is the sequence of the characters between
\* its ':' and its line ending.
Letters == <<"c", "e", "f", "i", "n", "o", "r", "s", "t", "x", "y">>

Capitals == <<"C", "E", "F", "I", "N", "O", "R", "S", "T", "X", "Y">>

\* The upper and the lower case of an ASCII character.
to_uppercase_char(ch) ==
    IF \E k \in 1..Len(Letters) : Letters[k] = ch
    THEN Capitals[CHOOSE k \in 1..Len(Letters) : Letters[k] = ch]
    ELSE ch

to_lowercase_char(ch) ==
    IF \E k \in 1..Len(Capitals) : Capitals[k] = ch
    THEN Letters[CHOOSE k \in 1..Len(Capitals) : Capitals[k] = ch]
    ELSE ch

\* str::to_uppercase
to_uppercase(str) == [k \in 1..Len(str) |-> to_uppercase_char(str[k])]

IR_TAG == <<"i", "r">>

FE_TAG == <<"f", "e">>

CSIR_TAG == <<"c", "s", "i", "r">>

ENTRY_TAG == <<"e", "n", "t", "r", "y", "_", "f", "i", "r", "s", "t">>

NOT_ENTRY_TAG == <<"n", "o", "t", "_">> \o ENTRY_TAG

\* A comparison of the tag with every letter case folded.
eq_ignore_case(data, tag) ==
    /\ Len(data) = Len(tag)
    /\ \A k \in 1..Len(tag) : to_lowercase_char(data[k]) = to_lowercase_char(tag[k])

\* check_tag: the tag as it is, or all in upper case.
check_tag(data, tag) == data = tag \/ data = to_uppercase(tag)

\* nom's tag_no_case: the length matched at the start of s, if any.
tag_no_case(tag, str) ==
    IF /\ Len(str) >= Len(tag)
       /\ \A k \in 1..Len(tag) : to_lowercase_char(str[k]) = to_lowercase_char(tag[k])
    THEN {Len(tag)} ELSE {}

\* match_header_tags: the first alternative that matches the start of the
\* line; take_until takes the whole line.
match_header_tags(line) ==
    IF tag_no_case(IR_TAG, line) # {} THEN Len(IR_TAG)
    ELSE IF tag_no_case(FE_TAG, line) # {} THEN Len(FE_TAG)
    ELSE IF tag_no_case(CSIR_TAG, line) # {} THEN Len(CSIR_TAG)
    ELSE IF tag_no_case(ENTRY_TAG, line) # {} THEN Len(ENTRY_TAG)
    ELSE Len(line)

\* parse_header_tags: many0 of ':' tag line_ending stops, without an error,
\* at the first line whose matched tag is not followed by the line ending.
RECURSIVE parse_header_tags(_, _)
parse_header_tags(lines, k) ==
    IF k > Len(lines) THEN <<>>
    ELSE IF match_header_tags(lines[k]) = Len(lines[k])
         THEN <<lines[k]>> \o parse_header_tags(lines, k + 1)
         ELSE <<>>

\* TextInstrProf::parse_header, up to the loop over the names.
TextParseTags ==
    /\ UNCHANGED notHeaderVars
    /\ reader = "text" /\ hpc = "parse_header"
    /\ header' = [names |-> parse_header_tags(bytes, 1),
                  is_ir_level |-> FALSE, has_csir |-> FALSE, entry_first |-> FALSE]
    /\ name_i' = 1
    /\ hpc' = "names"
    /\ UNCHANGED <<reader, bytes, parsed>>

\* One iteration of `for name in &names`.
TextCheckTag ==
    /\ UNCHANGED notHeaderVars
    /\ reader = "text" /\ hpc = "names"
    /\ name_i <= Len(header.names)
    /\ LET name == header.names[name_i]
       IN  IF check_tag(name, IR_TAG) \/ check_tag(name, NOT_ENTRY_TAG)
           THEN header' = [header EXCEPT !.is_ir_level = TRUE] /\ hpc' = hpc
           ELSE IF check_tag(name, CSIR_TAG)
           THEN /\ header' = [header EXCEPT !.has_csir = TRUE, !.is_ir_level = TRUE]
                /\ hpc' = hpc
           ELSE IF check_tag(name, ENTRY_TAG)
           THEN header' = [header EXCEPT !.entry_first = TRUE] /\ hpc' = hpc
           ELSE IF ~check_tag(name, FE_TAG)
           THEN hpc' = "error" /\ UNCHANGED header
           ELSE UNCHANGED <<header, hpc>>
    /\ name_i' = name_i + 1
    /\ UNCHANGED <<reader, bytes, parsed>>

\* TextInstrProf::parse_header returns the Header.
TextReturn ==
    /\ UNCHANGED notHeaderVars
    /\ reader = "text" /\ hpc = "names"
    /\ name_i > Len(header.names)
    /\ parsed' = {[is_ir_level |-> header.is_ir_level, has_csir |-> header.has_csir,
                   entry_first |-> header.entry_first]}
    /\ hpc' = "done"
    /\ UNCHANGED <<reader, bytes, header, name_i>>

\* ----------------------------------------------------- headers: inputs
MaxLines == 3

\* A tag with its first letter in upper case.
Capitalised(tag) == [k \in 1..Len(tag) |-> IF k = 1 THEN to_uppercase_char(tag[k]) ELSE tag[k]]

\* The header lines: the five tags in lower, upper and mixed case, an unknown
\* tag, an empty one, and a tag followed by another character.
HeaderLines ==
    LET tags == {IR_TAG, FE_TAG, CSIR_TAG, ENTRY_TAG, NOT_ENTRY_TAG}
    IN  tags \cup {to_uppercase(t) : t \in tags} \cup {Capitalised(t) : t \in tags}
             \cup {<<"x">>, <<>>, IR_TAG \o <<"x">>}

\* A reader is given its input.
HeaderStart(r, b) ==
    /\ reader = r /\ bytes = b
    /\ hpc = "parse_header"
    /\ header = EmptyMap /\ name_i = 0 /\ parsed = {}
    /\ EvalIdle
    /\ MergeIdle
    /\ RemapIdle
    /\ DecodeIdle
    /\ ReadValueIdle
    /\ RawCountsIdle
    /\ PathListIdle
    /\ ProfileDataIdle
    /\ FromStrIdle

InitHeader ==
    \/ \E word \in 0..WordMax : HeaderStart("raw", word)
    \/ \E word \in 0..WordMax : HeaderStart("indexed", word)
    \/ \E n \in 0..MaxLines : \E lines \in [1..n -> HeaderLines] : HeaderStart("text", lines)

NextHeader ==
    \/ RawParseHeader
    \/ RawParseBytes
    \/ IndexedParseHeader
    \/ IndexedParseBytes
    \/ TextParseTags
    \/ TextCheckTag
    \/ TextReturn

SpecHeader == InitHeader /\ [][NextHeader]_vars

\* ------------------------------------------- function record decoder: model
\* RegionKind
Code == "Code"
Expansion == "Expansion"
Skipped == "Skipped"
Gap == "Gap"
Branch == "Branch"

\* RegionKind::try_from(v): the kind numbered v, or none.
RegionKind_try_from(v) ==
    CASE v = 0 -> {Code}
      [] v = 1 -> {Expansion}
      [] v = 2 -> {Skipped}
      [] v = 3 -> {Gap}
      [] v = 4 -> {Branch}
      [] OTHER -> {}

ENCODING_TAG_AND_EXP_REGION_BITS == 3
ENCODING_EXPANSION_REGION_BIT == 4

\* raw_header & ENCODING_EXPANSION_REGION_BIT > 0
expansion_bit(raw_header) == (raw_header \div ENCODING_EXPANSION_REGION_BIT) % 2 = 1

\* raw_header >> ENCODING_TAG_AND_EXP_REGION_BITS
shifted_counter(raw_header) == raw_header \div (2 ^ ENCODING_TAG_AND_EXP_REGION_BITS)

SourceLocation(line_start, line_end, column_start, column_end) ==
    [line_start |-> line_start, line_end |-> line_end,
     column_start |-> column_start, column_end |-> column_end]

CounterMappingRegion(kind, count, false_count, file_id, expanded_file_id, loc) ==
    [kind |-> kind, count |-> count, false_count |-> false_count,
     file_id |-> file_id, expanded_file_id |-> expanded_file_id, loc |-> loc]

\* The decoder stops at a panic: an unwrap on the end of the input, the
\* todo!() of an expansion into an unknown file, the panic!("Malformed").
DecodeAbort(why) ==
    /\ dpc' = why
    /\ UNCHANGED <<stream, pos, expr_len, expressions, expr_k, file_indices,
                   file_k, regions_left, last_line, mapping, decoded>>

\* parse_coverage_functions: expr_len is read and the table is filled with
\* expr_len default expressions.
ReadExprLen ==
    /\ UNCHANGED notDecodeVars
    /\ dpc = "expr_len"
    /\ UNCHANGED read_words
    /\ IF pos > Len(stream)
       THEN DecodeAbort("panic_unwrap")
       ELSE /\ expr_len' = stream[pos]
            /\ expressions' = [k \in 1..stream[pos] |-> DefaultExpression]
            /\ expr_k' = 0
            /\ pos' = pos + 1
            /\ dpc' = "expressions"
            /\ UNCHANGED <<stream, file_indices, file_k, regions_left, last_line,
                           mapping, decoded>>

\* One iteration of the expression loop: lhs and rhs are read and decoded (which
\* may grow the table) and stored in exprs[i].
ReadExpression ==
    /\ UNCHANGED notDecodeVars
    /\ dpc = "expressions"
    /\ expr_k < expr_len
    /\ UNCHANGED read_words
    /\ IF pos + 1 > Len(stream)
       THEN DecodeAbort("panic_unwrap")
       ELSE LET lhs == stream[pos]
                rhs == stream[pos + 1]
                e1 == parse_counter_exprs(lhs, expressions)
                e2 == parse_counter_exprs(rhs, e1)
            IN  /\ expressions' = [e2 EXCEPT ![expr_k + 1].lhs = parse_counter(lhs),
                                             ![expr_k + 1].rhs = parse_counter(rhs)]
                /\ expr_k' = expr_k + 1
                /\ pos' = pos + 2
                /\ UNCHANGED <<stream, dpc, expr_len, file_indices, file_k,
                               regions_left, last_line, mapping, decoded>>

\* The expression loop is over: parse_mapping_regions is called.
BeginRegions ==
    /\ UNCHANGED notDecodeVars
    /\ dpc = "expressions"
    /\ expr_k >= expr_len
    /\ dpc' = "file"
    /\ file_k' = 1
    /\ mapping' = <<>>
    /\ UNCHANGED <<stream, pos, expr_len, expressions, expr_k, file_indices,
                   regions_left, last_line, decoded, read_words>>

\* parse_mapping_regions, the outer loop: regions_len of the next file index.
ReadRegionsLen ==
    /\ UNCHANGED notDecodeVars
    /\ dpc = "file"
    /\ file_k <= Len(file_indices)
    /\ UNCHANGED read_words
    /\ IF pos > Len(stream)
       THEN DecodeAbort("panic_unwrap")
       ELSE /\ regions_left' = stream[pos]
            /\ last_line' = 0
            /\ pos' = pos + 1
            /\ dpc' = "regions"
            /\ UNCHANGED <<stream, expr_len, expressions, expr_k, file_indices,
                           file_k, mapping, decoded>>

\* parse_mapping_regions, one iteration of the inner loop: the header, for a
\* branch the two counters, then the four words of the source range.
ReadRegion ==
    /\ UNCHANGED notDecodeVars
    /\ dpc = "regions"
    /\ regions_left > 0
    /\ IF pos > Len(stream)
       THEN DecodeAbort("panic_unwrap") /\ UNCHANGED read_words
       ELSE LET raw_header == stream[pos]
                header_counter == parse_counter(raw_header)
                e1 == parse_counter_exprs(raw_header, expressions)
                zero == is_zero(header_counter)
                expansion == zero /\ expansion_bit(raw_header)
                shifted == shifted_counter(raw_header)
                region_kind == RegionKind_try_from(shifted)
                plain == zero /\ ~expansion
                branch == plain /\ region_kind = {Branch}
                c1 == stream[pos + 1]
                c2 == stream[pos + 2]
                e2 == IF branch THEN parse_counter_exprs(c1, e1) ELSE e1
                e3 == IF branch THEN parse_counter_exprs(c2, e2) ELSE e2
                at == IF branch THEN pos + 3 ELSE pos + 1
                delta_line == stream[at]
                column_start == stream[at + 1]
                lines_len == stream[at + 2]
                column_end == stream[at + 3]
                whole == column_start = 0 /\ column_end = 0
                line_start == last_line + delta_line
                kind == IF expansion THEN Expansion
                        ELSE IF branch THEN Branch ELSE Code
                counter == IF branch THEN parse_counter(c1) ELSE header_counter
                false_count == IF branch THEN parse_counter(c2) ELSE DefaultCounter
                expanded_file_id == IF expansion THEN shifted ELSE 0
            IN  IF expansion /\ shifted >= Len(file_indices)
                THEN DecodeAbort("todo") /\ read_words' = Append(read_words, <<raw_header>>)
                ELSE IF plain /\ region_kind \notin {{Code}, {Skipped}, {Branch}}
                THEN /\ DecodeAbort("panic_malformed")
                     /\ read_words' = Append(read_words, <<raw_header>>)
                ELSE IF branch /\ pos + 2 > Len(stream)
                THEN /\ DecodeAbort("panic_unwrap")
                     /\ read_words' = Append(read_words, <<raw_header>>)
                ELSE IF at + 3 > Len(stream)
                THEN /\ DecodeAbort("panic_unwrap")
                     /\ read_words' = Append(read_words, <<raw_header>>)
                ELSE /\ expressions' = e3
                     /\ mapping' = Append(mapping,
                            CounterMappingRegion(kind, counter, false_count,
                                file_indices[file_k], expanded_file_id,
                                SourceLocation(line_start, line_start + lines_len,
                                    IF whole THEN 1 ELSE column_start,
                                    IF whole THEN U64Max ELSE column_end)))
                     /\ read_words' = Append(read_words,
                            IF branch THEN <<raw_header, c1, c2>> ELSE <<raw_header>>)
                     /\ last_line' = line_start
                     /\ regions_left' = regions_left - 1
                     /\ pos' = at + 4
                     /\ UNCHANGED <<stream, dpc, expr_len, expr_k, file_indices,
                                    file_k, decoded>>

\* The regions of a file index are done: on to the next file index.
EndFile ==
    /\ UNCHANGED notDecodeVars
    /\ dpc = "regions"
    /\ regions_left = 0
    /\ file_k' = file_k + 1
    /\ dpc' = "file"
    /\ UNCHANGED <<stream, pos, expr_len, expressions, expr_k, file_indices,
                   regions_left, last_line, mapping, decoded, read_words>>

\* parse_mapping_regions returned: the FunctionRecordV3 is pushed.
DecodeReturn ==
    /\ UNCHANGED notDecodeVars
    /\ dpc = "file"
    /\ file_k > Len(file_indices)
    /\ decoded' = {[regions |-> mapping, expressions |-> expressions]}
    /\ dpc' = "done"
    /\ UNCHANGED <<stream, pos, expr_len, expressions, expr_k, file_indices,
                   file_k, regions_left, last_line, mapping, read_words>>

\* ----------------------------------------- function record decoder: inputs
\* Region headers: the encoded counters (4 is an expansion into file 0), an
\* expansion into file 1, and the pseudo-counters with the shifted values 1..5.
RegionHeaderWords == EncodedCounters \cup {12} \cup {8 * v : v \in 1..5}

\* The counters of a branch region: a counter, and expressions 0 and 1.
BranchCounters == {1, 2, 7}

\* The words of one region with header h.
RegionWords(h) ==
    IF h = 32 THEN {<<h, c1, c2>> : c1 \in BranchCounters, c2 \in BranchCounters}
    ELSE {<<h>>}

\* Source ranges: a delta of one line, with columns or without.
RangeWords == {<<1, 1, 0, 2>>, <<1, 0, 1, 0>>}

MaxDecodedRegions == 2

\* The words of n regions.
RECURSIVE RegionStreams(_)
RegionStreams(n) ==
    IF n = 0 THEN {<<>>}
    ELSE {r \o w \o l : r \in RegionStreams(n - 1),
                        w \in UNION {RegionWords(h) : h \in RegionHeaderWords},
                        l \in RangeWords}

\* expr_len and the (lhs, rhs) pairs: no expression, or one.
ExpressionStreams ==
    {<<0>>} \cup {<<1, l, r>> : l \in EncodedCounters, r \in BranchCounters \cup {0}}

\* A record of one file index, or of two where the second has no region.
DecodeStart(s, f) ==
    /\ stream = s /\ pos = 1 /\ dpc = "expr_len" /\ expr_len = 0
    /\ expressions = <<>> /\ expr_k = 0 /\ file_indices = f /\ file_k = 0
    /\ regions_left = 0 /\ last_line = 0 /\ mapping = <<>> /\ decoded = {}
    /\ read_words = <<>>
    /\ EvalIdle
    /\ MergeIdle
    /\ RemapIdle
    /\ HeaderIdle
    /\ ReadValueIdle
    /\ RawCountsIdle
    /\ PathListIdle
    /\ ProfileDataIdle
    /\ FromStrIdle

InitDecode ==
    \/ \E e \in ExpressionStreams : \E n \in 1..MaxDecodedRegions :
         \E r \in RegionStreams(n) : DecodeStart(e \o <<n>> \o r, <<0>>)
    \/ \E r \in RegionStreams(1) :
         DecodeStart(<<0, 1>> \o r \o <<0>>, <<0, 1>>)
    \/ \E r \in RegionStreams(1) : \E n \in 0..(Len(r) + 1) :
         DecodeStart(SubSeq(<<0, 1>> \o r, 1, n), <<0>>)

NextDecode ==
    \/ ReadExprLen
    \/ ReadExpression
    \/ BeginRegions
    \/ ReadRegionsLen
    \/ ReadRegion
    \/ EndFile
    \/ DecodeReturn

SpecDecode == InitDecode /\ [][NextDecode]_vars

\* ----------------------------------------------- hash table values: model
\* The u32 pair (total_size, num_value_kinds) read from one 8-byte word, the
\* low half first; HalfBase stands for 2^32.
HalfBase == 2

total_size_of(word) == word % HalfBase

num_value_kinds_of(word) == word \div HalfBase

\* The 8-byte word at a byte offset of the input.
WordAt(words, off) == words[(off \div 8) + 1]

\* input.len(), in bytes
InputLen == 8 * Len(rv_input)

\* InstrProfRecord { counts, data: None }
HashedRecord(hash, counts) == <<hash, [counts |-> counts, data |-> {}]>>

\* read_value, up to the loop: a data_len that is not 8-byte aligned and one
\* past the end of the input are errors.
ReadValueEntry ==
    /\ UNCHANGED notReadValueVars
    /\ rvpc = "entry"
    /\ rvpc' = IF data_len % 8 # 0 THEN "error_unaligned"
               ELSE IF InputLen < data_len THEN "error_eof"
               ELSE "loop"
    /\ UNCHANGED <<rv_version, rv_input, data_len, consumed, result, last_hash,
                   returned>>

\* One iteration of the loop: a hash, counts_len, the counts, and the two u32
\* of the value profile header, with a break after each once the value's end
\* is reached; a read past the end of the input is an error.
ReadValueRecord ==
    /\ UNCHANGED notReadValueVars
    /\ rvpc = "loop"
    /\ consumed < data_len
    /\ LET end_len == InputLen - data_len
           left(off) == InputLen - off
           hash == WordAt(rv_input, consumed)
           counts_len == WordAt(rv_input, consumed + 8)
           counts_at == consumed + 16
           counts == [k \in 1..counts_len |-> WordAt(rv_input, counts_at + 8 * (k - 1))]
           after_counts == counts_at + 8 * counts_len
           vp == WordAt(rv_input, after_counts)
           pushed == Append(result, HashedRecord(hash, counts))
       IN  /\ returned' = returned
           /\ UNCHANGED <<rv_version, rv_input, data_len>>
           /\ IF left(consumed) < 8
              THEN rvpc' = "error_eof" /\ UNCHANGED <<consumed, result, last_hash>>
              ELSE /\ last_hash' = hash
                   /\ IF left(consumed + 8) <= end_len
                      THEN rvpc' = "out" /\ UNCHANGED <<consumed, result>>
                      ELSE IF left(consumed + 8) < 8
                      THEN rvpc' = "error_eof" /\ UNCHANGED <<consumed, result>>
                      ELSE IF left(counts_at) <= end_len
                      THEN rvpc' = "out" /\ UNCHANGED <<consumed, result>>
                      ELSE IF left(counts_at) < 8 * counts_len
                      THEN /\ rvpc' = "error_eof"
                           /\ consumed' = counts_at + 8 * (left(counts_at) \div 8)
                           /\ UNCHANGED result
                      ELSE /\ result' = pushed
                           /\ IF left(after_counts) <= end_len
                              THEN rvpc' = "out" /\ consumed' = after_counts
                              ELSE IF left(after_counts) < 4
                              THEN rvpc' = "error_eof" /\ consumed' = after_counts
                              ELSE IF left(after_counts + 4) <= end_len
                              THEN rvpc' = "out" /\ consumed' = after_counts
                              ELSE IF left(after_counts + 4) < 4
                              THEN rvpc' = "error_eof" /\ consumed' = after_counts
                              ELSE IF left(after_counts + 8) < end_len
                              THEN rvpc' = "out" /\ consumed' = after_counts
                              ELSE /\ consumed' = after_counts + 8
                                   /\ rvpc' = IF num_value_kinds_of(vp) > 0 /\ rv_version > 2
                                              THEN "out" ELSE "loop"

\* The loop condition fails.
ReadValueLoopEnd ==
    /\ UNCHANGED notReadValueVars
    /\ rvpc = "loop"
    /\ consumed >= data_len
    /\ rvpc' = "out"
    /\ UNCHANGED <<rv_version, rv_input, data_len, consumed, result, last_hash,
                   returned>>

\* After the loop: an empty result gets the default record, input is set to
\* expected_end, the assertion is checked and the first pair is returned.
ReadValueReturn ==
    /\ UNCHANGED notReadValueVars
    /\ rvpc = "out"
    /\ LET filled == IF result = <<>>
                     THEN <<HashedRecord(last_hash, <<>>)>> ELSE result
       IN  /\ result' = filled
           /\ consumed' = data_len
           /\ IF Len(filled) # 1
              THEN rvpc' = "panic_assert" /\ returned' = returned
              ELSE /\ rvpc' = "returned"
                   /\ returned' = {[rest |-> data_len, value |-> filled[1]]}
    /\ UNCHANGED <<rv_version, rv_input, data_len, last_hash>>

\* ----------------------------------------------- hash table values: inputs
MaxWords == 6

\* Words: hashes, lengths, counts and value profile headers.
WordValues == 0..2

\* The lengths of a value: the aligned ones up to one word past the input,
\* and two unaligned ones.
DataLens(words) == {8 * k : k \in 0..(Len(words) + 1)} \cup {4, 12}

InitReadValue ==
    \E v \in {2, 3} : \E n \in 0..MaxWords : \E words \in [1..n -> WordValues] :
        \E d \in DataLens(words) :
            /\ rv_version = v /\ rv_input = words /\ data_len = d /\ consumed = 0
            /\ result = <<>> /\ last_hash = 0 /\ rvpc = "entry" /\ returned = {}
            /\ EvalIdle
            /\ MergeIdle
            /\ RemapIdle
            /\ HeaderIdle
            /\ DecodeIdle
            /\ RawCountsIdle
            /\ PathListIdle
            /\ ProfileDataIdle
            /\ FromStrIdle

NextReadValue ==
    \/ ReadValueEntry
    \/ ReadValueRecord
    \/ ReadValueLoopEnd
    \/ ReadValueReturn

SpecReadValue == InitReadValue /\ [][NextReadValue]_vars

\* ------------------------------------------ raw profile counters: model
\* The width of the words of the raw header and of the entries' pointers,
\* which stands for 64: u64 values are 0..RawWord-1, i64 values the signed
\* reading of the same bits.
RawBits == 10

RawWord == 2 ^ RawBits

\* `as i64` of a u64
raw_as_i64(u) == IF u >= RawWord \div 2 THEN u - RawWord ELSE u

\* An i64 result that does not fit and its wrapped value.
raw_overflows(v) == v < 0 - (RawWord \div 2) \/ v >= RawWord \div 2

raw_wrap_i64(v) == ((v + (RawWord \div 2)) % RawWord) - (RawWord \div 2)

\* ProfileData::<u64>::len(): 16 + 4 + 2 * 2 + 3 * 8
ProfileData_len == 48

\* Header::counter_size
counter_size(h) == IF h.byte_coverage THEN 1 ELSE 8

\* Header::max_counters_len
max_counters_len(h) == (8 * h.counters_len) + h.padding_bytes_after_counters

\* nom_u64 (little endian) of the eight bytes from `from` on; a byte stands
\* for one bit of the value.
RECURSIVE nom_u64(_, _, _)
nom_u64(b, from, n) ==
    IF n = 0 THEN 0 ELSE b[from + 1] + 2 * nom_u64(b, from + 1, n - 1)

\* read_raw_counts(header, data, counter_offset, bytes), where bytes is
\* raw_bytes from `from` on: how the call ends, the record and the rest.
read_raw_counts(h, data, counter_offset, b, from) ==
    LET max_counters == max_counters_len(h)
        left == Len(b) - from
        start == from + counter_offset
        size == counter_size(h)
    IN  IF \/ data.num_counters = 0
           \/ max_counters < 0
           \/ counter_offset < 0
           \/ counter_offset >= h.counters_len * size
           \/ data.num_counters > max_counters
           \/ (h.version_lt_8 /\ counter_offset < 0)
           \/ counter_offset > max_counters
           \/ counter_offset + data.num_counters > max_counters
        THEN [kind |-> "error_malformed", counts |-> <<>>, rest |-> from]
        ELSE IF counter_offset > left
        THEN [kind |-> "error_eof", counts |-> <<>>, rest |-> from]
        ELSE IF start + (size * data.num_counters) > Len(b)
        THEN [kind |-> IF h.byte_coverage THEN "panic_index" ELSE "error_eof",
              counts |-> <<>>, rest |-> from]
        ELSE [kind |-> "ok",
              counts |-> [k \in 1..data.num_counters |->
                            IF h.byte_coverage
                            THEN (IF b[start + k] = 0 THEN 1 ELSE 0)
                            ELSE nom_u64(b, start + 8 * (k - 1), 8)],
              rest |-> start + (size * data.num_counters)]

\* A delta that is not lowered.
keep_delta(cd) == cd

\* counters_delta -= data.len() as u64 (when it wraps)
lower_delta(cd) == (cd - ProfileData_len) % RawWord

\* One iteration of the loop over data_section with the offset `off`: the
\* call of read_raw_counts, then the cursor and the delta are moved on. The
\* u64 subtraction from the delta panics in a debug build and wraps in a
\* release build when the delta is smaller than an entry.
RawCountsIteration(off) ==
    LET data == data_section[data_k]
        r == read_raw_counts(profile_header, data, off, raw_bytes, cursor_at)
        call == [offset |-> off, from |-> cursor_at, delta |-> counters_delta,
                 kind |-> r.kind]
    IN  /\ calls' = Append(calls, call)
        /\ UNCHANGED <<profile_header, data_section, raw_bytes>>
        /\ IF r.kind # "ok"
           THEN /\ rcpc' = r.kind
                /\ UNCHANGED <<cursor_at, total_offset, counters_delta, data_k, counters>>
           ELSE \/ /\ counters_delta < ProfileData_len
                   /\ rcpc' = "panic_overflow"
                   /\ total_offset' = total_offset + off + (Len(r.counts) * counter_size(profile_header))
                   /\ UNCHANGED <<cursor_at, counters_delta, data_k, counters>>
                \/ /\ total_offset' = total_offset + off + (Len(r.counts) * counter_size(profile_header))
                   /\ counters_delta' = lower_delta(counters_delta)
                   /\ counters' = Append(counters, [counts |-> r.counts, data |-> {}])
                   /\ cursor_at' = r.rest
                   /\ data_k' = data_k + 1
                   /\ rcpc' = rcpc

\* The loop over data_section: counters_offset is computed in i64 (an
\* overflow panics in a debug build and wraps in a release build) for versions
\* above 7 and is 0 otherwise.
ReadRawCounts ==
    /\ UNCHANGED notRawCountsVars
    /\ rcpc = "counters"
    /\ data_k <= Len(data_section)
    /\ LET data == data_section[data_k]
           d1 == raw_as_i64(data.counter_ptr) - raw_as_i64(counters_delta)
           d2 == raw_wrap_i64(d1) - total_offset
       IN  IF profile_header.version > 7
           THEN \/ /\ raw_overflows(d1) \/ raw_overflows(d2)
                   /\ rcpc' = "panic_overflow"
                   /\ UNCHANGED <<profile_header, data_section, raw_bytes, cursor_at,
                                  total_offset, counters_delta, data_k, counters, calls>>
                \/ RawCountsIteration(raw_wrap_i64(d2))
           ELSE RawCountsIteration(0)

\* After the loop: the rest of the counters section and its padding are
\* skipped. The usize subtraction panics in a debug build and wraps in a
\* release build (where the take then fails) when more was consumed.
SkipCountersEnd ==
    /\ UNCHANGED notRawCountsVars
    /\ rcpc = "counters"
    /\ data_k > Len(data_section)
    /\ LET counters_end == profile_header.padding_bytes_after_counters
                              + (profile_header.counters_len * counter_size(profile_header))
                              - cursor_at
       IN  IF counters_end < 0
           THEN rcpc' \in {"panic_overflow", "error_eof"} /\ cursor_at' = cursor_at
           ELSE IF counters_end > Len(raw_bytes) - cursor_at
           THEN rcpc' = "error_eof" /\ cursor_at' = cursor_at
           ELSE rcpc' = "names" /\ cursor_at' = cursor_at + counters_end
    /\ UNCHANGED <<profile_header, data_section, raw_bytes, total_offset,
                   counters_delta, data_k, counters, calls>>

\* ----------------------------------------- raw profile counters: inputs
MaxCounters == 2

\* Headers: version 7 or 8, 8-byte or 1-byte counters, up to MaxCounters + 1
\* counters, with or without padding, and a delta that is one or two entries
\* and a page, that is too small for the entries, or that is negative.
RawHeaders ==
    {[version |-> v, version_lt_8 |-> (v < 8 /\ ~bc), byte_coverage |-> bc,
      counters_len |-> cl, padding_bytes_after_counters |-> pad,
      counters_delta |-> cd] :
        v \in {7, 8}, bc \in BOOLEAN, cl \in 1..(MaxCounters + 1), pad \in {0, 8},
        cd \in {ProfileData_len, 2 * ProfileData_len + 64, RawWord - 64}}

\* Entries: counters pointers that land around the counters section for the
\* entry's position or that are the least i64, and up to MaxCounters counters.
RawEntries(cd, k) ==
    {[counter_ptr |-> p, num_counters |-> n] :
        p \in {(cd - (k * ProfileData_len) + a) % RawWord : a \in {0 - 8, 0, 8, 16}}
               \cup {RawWord \div 2},
        n \in 0..MaxCounters}

\* Contents: zero bytes, or ones and zeros in turn.
RawContents(n) == {[k \in 1..n |-> 0], [k \in 1..n |-> k % 2]}

RawCountsStart(h, d, b) ==
    /\ profile_header = h /\ data_section = d /\ raw_bytes = b
    /\ cursor_at = 0 /\ total_offset = 0 /\ counters_delta = h.counters_delta
    /\ data_k = 1 /\ counters = <<>> /\ rcpc = "counters" /\ calls = <<>>
    /\ EvalIdle
    /\ MergeIdle
    /\ RemapIdle
    /\ HeaderIdle
    /\ DecodeIdle
    /\ ReadValueIdle
    /\ PathListIdle
    /\ ProfileDataIdle
    /\ FromStrIdle

\* The input holds the counters section and its padding, cut short by a
\* counter or followed by the names.
InitRawCounts ==
    \E h \in RawHeaders : \E e1 \in RawEntries(h.counters_delta, 0) :
      \E more \in {<<>>} \cup {<<e2>> : e2 \in RawEntries(h.counters_delta, 1)} :
        \E extra \in {0 - 8, 0, 16} :
          \E b \in RawContents((h.counters_len * counter_size(h))
                                  + h.padding_bytes_after_counters + extra) :
            RawCountsStart(h, <<e1>> \o more, b)

NextRawCounts ==
    \/ ReadRawCounts
    \/ SkipCountersEnd

SpecRawCounts == InitRawCounts /\ [][NextRawCounts]_vars

\* ------------------------------------------------------ path lists: model
\* str::split: the pieces of s between the separators, one more than there
\* are separators.
RECURSIVE split_from(_, _, _, _)
split_from(s, sep, k, piece) ==
    IF k > Len(s) THEN <<piece>>
    ELSE IF s[k] = sep THEN <<piece>> \o split_from(s, sep, k + 1, <<>>)
    ELSE split_from(s, sep, k + 1, Append(piece, s[k]))

split(s, sep) == split_from(s, sep, 1, <<>>)

\* PathBuf::from / Path::new of a string (a sequence of characters): whether
\* it starts with '/', and the non-empty pieces between the '/'.
path_from(s) ==
    PathBuf(Len(s) > 0 /\ s[1] = "/", SelectSeq(split(s, "/"), LAMBDA c : c # <<>>))

\* read_string at position p of b: a LEB128 length, then that many bytes.
\* The end of the input gives an error, a length past the end a panic.
read_string(b, p) ==
    IF p > Len(b) THEN [kind |-> "error", string |-> <<>>, next |-> p]
    ELSE IF p + b[p] > Len(b) THEN [kind |-> "panic", string |-> <<>>, next |-> p]
    ELSE [kind |-> "ok", string |-> SubSeq(b, p + 1, p + b[p]), next |-> p + b[p] + 1]

\* parse_uncompressed_file_list, the loops: n strings from position p on, each
\* a path as it stands (joined = FALSE) or joined onto cwd unless absolute.
RECURSIVE read_paths(_, _, _, _, _, _)
read_paths(b, p, n, joined, cwd, acc) ==
    IF n <= 0 THEN [kind |-> "ok", values |-> acc, next |-> p]
    ELSE LET r == read_string(b, p)
             tmp == path_from(r.string)
         IN  IF r.kind # "ok" THEN [kind |-> r.kind, values |-> <<>>, next |-> p]
             ELSE read_paths(b, r.next, n - 1, joined, cwd,
                     Append(acc, IF joined /\ ~tmp.abs THEN join(cwd, tmp) ELSE tmp))

parse_uncompressed_file_list(b, p, list_length, v) ==
    IF v < 5 THEN read_paths(b, p, list_length, FALSE, EmptyPath, <<>>)
    ELSE LET r == read_string(b, p)
             cwd == path_from(r.string)
         IN  IF r.kind # "ok" THEN [kind |-> r.kind, values |-> <<>>, next |-> p]
             ELSE read_paths(b, r.next, list_length - 1, TRUE, cwd, <<cwd>>)

\* parse_uncompressed_string_list: strings until the input is empty.
RECURSIVE parse_uncompressed_string_list(_, _, _)
parse_uncompressed_string_list(b, p, acc) ==
    IF p > Len(b) THEN [kind |-> "ok", values |-> acc, next |-> p]
    ELSE LET r == read_string(b, p)
         IN  IF r.kind # "ok" THEN [kind |-> r.kind, values |-> <<>>, next |-> p]
             ELSE parse_uncompressed_string_list(b, r.next, Append(acc, r.string))

\* A deflate envelope and ZlibDecoder::read_to_end: the envelope is a marker
\* before the data, and anything else is not a deflate stream.
deflate(data) == <<"zlib">> \o data

inflate(b) ==
    IF Len(b) > 0 /\ b[1] = "zlib"
    THEN [kind |-> "ok", output |-> SubSeq(b, 2, Len(b))]
    ELSE [kind |-> "panic", output |-> <<>>]

\* parse_path_list on the input b.
parse_path_list(b, v) ==
    IF Len(b) < 1 THEN [kind |-> "error", values |-> <<>>, next |-> 1]
    ELSE IF v < 3 THEN parse_uncompressed_file_list(b, 2, b[1], v)
    ELSE IF Len(b) < 3 THEN [kind |-> "error", values |-> <<>>, next |-> 1]
    ELSE LET list_length == b[1]
             compressed_size == b[3]
         IN  IF compressed_size = 0
             THEN parse_uncompressed_file_list(b, 4, list_length, v)
             ELSE IF 3 + compressed_size > Len(b)
             THEN [kind |-> "panic", values |-> <<>>, next |-> 4]
             ELSE LET z == inflate(SubSeq(b, 4, 3 + compressed_size))
                      l == parse_uncompressed_string_list(z.output, 1, <<>>)
                  IN  IF z.kind # "ok" THEN [kind |-> "panic", values |-> <<>>, next |-> 4]
                      ELSE IF l.kind = "panic" THEN [kind |-> "panic", values |-> <<>>, next |-> 4]
                      ELSE IF l.kind # "ok" THEN [kind |-> "failure", values |-> <<>>, next |-> 4]
                      ELSE [kind |-> "ok",
                            values |-> [k \in 1..Len(l.values) |-> path_from(l.values[k])],
                            next |-> 4 + compressed_size]

\* How a list is written: every entry as its length and its characters; then
\* the number of entries, the size of the data, and either 0 and the data or
\* the size of the envelope and the envelope. Before version 3 there are only
\* the number of entries and the data.
RECURSIVE encode_entries(_)
encode_entries(entries) ==
    IF entries = <<>> THEN <<>>
    ELSE <<Len(Head(entries))>> \o Head(entries) \o encode_entries(SubSeq(entries, 2, Len(entries)))

encode_plain(entries, v) ==
    LET data == encode_entries(entries)
    IN  IF v < 3 THEN <<Len(entries)>> \o data
        ELSE <<Len(entries), Len(data), 0>> \o data

encode_deflated(entries) ==
    LET data == encode_entries(entries)
    IN  <<Len(entries), Len(data), Len(deflate(data))>> \o deflate(data)

\* parse_path_list is called on the uncompressed list.
ParsePlainList ==
    /\ UNCHANGED notPathListVars
    /\ pl_version > 0 /\ pl_plain = {}
    /\ pl_plain' = {parse_path_list(encode_plain(pl_entries, pl_version), pl_version)}
    /\ UNCHANGED <<pl_entries, pl_version, pl_deflated>>

\* parse_path_list is called on the list in its envelope.
ParseDeflatedList ==
    /\ UNCHANGED notPathListVars
    /\ pl_version >= 3 /\ pl_deflated = {}
    /\ pl_deflated' = {parse_path_list(encode_deflated(pl_entries), pl_version)}
    /\ UNCHANGED <<pl_entries, pl_version, pl_plain>>

\* ----------------------------------------------------- path lists: inputs
MaxEntries == 3

\* Entries: absolute and relative paths, and the empty string.
EntryStrings == {<<"/", "a">>, <<"/", "b">>, <<"b">>, <<"a", "/", "b">>, <<>>}

ListVersions == 2..6

InitPathList ==
    \E v \in ListVersions : \E n \in 0..MaxEntries : \E e \in [1..n -> EntryStrings] :
        /\ pl_entries = e /\ pl_version = v /\ pl_plain = {} /\ pl_deflated = {}
        /\ EvalIdle
        /\ MergeIdle
        /\ RemapIdle
        /\ HeaderIdle
        /\ DecodeIdle
        /\ ReadValueIdle
        /\ RawCountsIdle
        /\ ProfileDataIdle
        /\ FromStrIdle

NextPathList ==
    \/ ParsePlainList
    \/ ParseDeflatedList

SpecPathList == InitPathList /\ [][NextPathList]_vars

\* -------------------------------------------- profile data sections: model
\* ProfileData of the coverage mapping
ProfileData(name_md5, structural_hash, counters_len) ==
    [name_md5 |-> name_md5, structural_hash |-> structural_hash,
     counters_len |-> counters_len]

\* read_u32_bytes of the first four bytes of an 8-byte word; U32Base stands
\* for 2^32.
U32Base == 4

read_u32_bytes(word) == word % U32Base

\* parse_profile_data, one iteration of the loop over the bytes that are left:
\* slicing past the end of the section panics. The record is read when at most
\* counters_location bytes are left, and the rest is dropped otherwise.
ParseProfileDataStep ==
    /\ UNCHANGED notProfileDataVars
    /\ pdpc = "loop"
    /\ pd_at < 8 * Len(prf_data)
    /\ LET len == (8 * Len(prf_data)) - pd_at
           name_md5 == WordAt(prf_data, pd_at)
           structural_hash == WordAt(prf_data, pd_at + 8)
           counters_location == 24 + 16
           counters_len == read_u32_bytes(WordAt(prf_data, pd_at + counters_location))
       IN  IF len < 24
           THEN pdpc' = "panic_slice" /\ UNCHANGED <<pd_at, pd_res>>
           ELSE IF len <= counters_location
           THEN IF len < counters_location + 8
                THEN pdpc' = "panic_slice" /\ UNCHANGED <<pd_at, pd_res>>
                ELSE /\ pd_at' = pd_at + counters_location + 8
                     /\ pd_res' = Append(pd_res,
                            ProfileData(name_md5, structural_hash, counters_len))
                     /\ pdpc' = pdpc
           ELSE /\ pd_at' = 8 * Len(prf_data)
                /\ UNCHANGED <<pd_res, pdpc>>
    /\ UNCHANGED <<prf_data, prf_cnts, prof_counts>>

\* parse_profile_data returns res once no byte is left.
ParseProfileDataReturn ==
    /\ UNCHANGED notProfileDataVars
    /\ pdpc = "loop"
    /\ pd_at >= 8 * Len(prf_data)
    /\ pdpc' = "counters"
    /\ UNCHANGED <<prf_data, prf_cnts, pd_at, pd_res, prof_counts>>

\* parse_profile_counters: one u64 for each 8 bytes of the section.
parse_profile_counters(section) == [k \in 1..Len(section) |-> section[k]]

ParseProfileCounters ==
    /\ UNCHANGED notProfileDataVars
    /\ pdpc = "counters"
    /\ prof_counts' = {parse_profile_counters(prf_cnts)}
    /\ pdpc' = "done"
    /\ UNCHANGED <<prf_data, prf_cnts, pd_at, pd_res>>

\* ------------------------------------------- profile data sections: inputs
MaxDataRecords == 2

\* A 48-byte record: name_md5, structural_hash, the counter pointer, two more
\* words, and the word that starts with counters_len.
DataRecords ==
    {<<n, h, 0, 0, 0, c>> : n \in 1..2, h \in 1..2, c \in {1, 2, U32Base + 1}}

RECURSIVE DataSections(_)
DataSections(n) ==
    IF n = 0 THEN {<<>>}
    ELSE {s \o r : s \in DataSections(n - 1), r \in DataRecords}

\* The counters of the records of a section: counters_len of them per record.
RECURSIVE CountersOf(_)
CountersOf(section) ==
    IF section = <<>> THEN <<>>
    ELSE [k \in 1..read_u32_bytes(section[6]) |-> k]
            \o CountersOf(SubSeq(section, 7, Len(section)))

\* The object's sections: whole records with exactly their counters, or a
\* prf_data section that is cut short.
InitProfileData ==
    \E n \in 0..MaxDataRecords : \E s \in DataSections(n) : \E cut \in 0..3 :
        /\ cut <= Len(s)
        /\ prf_data = SubSeq(s, 1, Len(s) - cut)
        /\ prf_cnts = CountersOf(s)
        /\ pd_at = 0 /\ pd_res = <<>> /\ pdpc = "loop" /\ prof_counts = {}
        /\ EvalIdle
        /\ MergeIdle
        /\ RemapIdle
        /\ HeaderIdle
        /\ DecodeIdle
        /\ ReadValueIdle
        /\ RawCountsIdle
        /\ PathListIdle
        /\ FromStrIdle

NextProfileData ==
    \/ ParseProfileDataStep
    \/ ParseProfileDataReturn
    \/ ParseProfileCounters

SpecProfileData == InitProfileData /\ [][NextProfileData]_vars

\* ------------------------------------------- remapping arguments: model
\* PathRemapping::from_str: the checks in their order; indexing paths[1] of a
\* one-element list panics.
from_str(s) ==
    LET split_paths == split(s, ",")
    IN  IF split_paths = <<>> THEN [kind |-> "EmptyRemapping"]
        ELSE IF Len(split_paths) > 2 THEN [kind |-> "TooManyPaths"]
        ELSE IF split_paths[1] = <<>> THEN [kind |-> "MissingSourcePath"]
        ELSE IF Len(split_paths) < 2 THEN [kind |-> "panic_index"]
        ELSE IF split_paths[2] = <<>> THEN [kind |-> "MissingDestinationPath"]
        ELSE [kind |-> "Ok", source |-> path_from(split_paths[1]),
              dest |-> path_from(split_paths[2])]

FromStr ==
    /\ UNCHANGED notFromStrVars
    /\ fspc = "call"
    /\ LET r == from_str(fs_input)
       IN  IF r.kind = "panic_index"
           THEN fspc' = "panic_index" /\ fs_result' = fs_result
           ELSE fspc' = "returned" /\ fs_result' = {r}
    /\ UNCHANGED fs_input

\* ------------------------------------------ remapping arguments: inputs
MaxChars == 4

ArgumentChars == {",", "/", "a"}

InitFromStr ==
    \E n \in 0..MaxChars : \E s \in [1..n -> ArgumentChars] :
        /\ fs_input = s /\ fspc = "call" /\ fs_result = {}
        /\ EvalIdle
        /\ MergeIdle
        /\ RemapIdle
        /\ HeaderIdle
        /\ DecodeIdle
        /\ ReadValueIdle
        /\ RawCountsIdle
        /\ PathListIdle
        /\ ProfileDataIdle

NextFromStr == FromStr

SpecFromStr == InitFromStr /\ [][NextFromStr]_vars

\* ------------------------------------------------ evaluator: properties
\* The records of the profile matched to the function by (fn_hash, name_hash).
MatchedTo(func) ==
    {k \in 1..Len(profile.records) :
        /\ profile.records[k].hash = {func.header.fn_hash}
        /\ profile.records[k].name_hash = {func.header.name_hash}}

\* The regions of function fi that the loop over the non-expression regions
\* has gone past.
PassedRegions(fi) ==
    IF fi = func_i /\ pc = "simple" THEN 1..(region_i - 1)
    ELSE IF fi = func_i /\ pc \in {"first", "pending"} THEN 1..Len(cov_fun[fi].regions)
    ELSE {}

\* C1: for a function with a non-empty filename list that is matched by
\* (fn_hash, name_hash) to a profile record R, every non-expression region is
\* emitted, for its own source range and into the file filenames[file_id],
\* with the count R.counts[id] when its counter is Instrumentation(id) with
\* id < |R.counts| and with 0 otherwise (a Zero counter, or one absent from
\* the working map).
C1_NonExpressionCounts ==
    \A fi \in 1..Len(cov_fun) :
        LET func == cov_fun[fi]
            filenames == get_files_from_id(cov_map, func.header.filenames_ref)
        IN  \A k \in MatchedTo(func) :
                LET counts == profile.records[k].counts
                    expected(c) == IF is_instrumentation(c) /\ c.id < Len(counts)
                                   THEN counts[c.id + 1] ELSE 0
                IN  /\ \A e \in emitted :
                          (e.func = fi /\ e.expr = -1) =>
                              LET region == func.regions[e.region]
                              IN  /\ ~is_expression(region.count)
                                  /\ region.file_id < Len(filenames)
                                  /\ e.path = filenames[region.file_id + 1]
                                  /\ e.loc = region.loc
                                  /\ e.count = expected(region.count)
                    /\ \A j \in PassedRegions(fi) :
                          ~is_expression(func.regions[j].count) =>
                              \E e \in emitted :
                                  e.func = fi /\ e.region = j /\ e.expr = -1

\* C1 witness: a matched function had an instrumentation region emitted with
\* the largest count (the one the casts through i64 turn negative on the way)
\* and a Zero region emitted with 0, into the joined relative path.
C1_Witness ==
    \E e1 \in emitted, e2 \in emitted :
        /\ e1.func = 1 /\ e1.expr = -1 /\ e1.count = U64Max
        /\ is_instrumentation(cov_fun[1].regions[e1.region].count)
        /\ e2.func = 1 /\ e2.expr = -1 /\ e2.count = 0
        /\ is_zero(cov_fun[1].regions[e2.region].count)
        /\ e1.path = PathBuf(TRUE, <<"src", "lib.rs">>)
        /\ MatchedTo(cov_fun[1]) # {}

\* The operand values of the expression the emission e was made for, read
\* from the working map of the function being evaluated.
OperandValue(c) == region_ids[c]

\* C2: the count emitted for the region of a resolved expression is lhs + rhs
\* (Add) or lhs - rhs (Subtract) of the values of its two operands, and the
\* evaluation of an expression never stops on an arithmetic overflow.
C2_ExpressionValue ==
    /\ pc # "panic_overflow"
    /\ pc \in {"first", "pending"} =>
          \A e \in emitted :
              (e.func = func_i /\ e.expr >= 0) =>
                  LET x == cov_fun[e.func].expressions[e.expr + 1]
                      lhs == OperandValue(x.lhs)
                      rhs == OperandValue(x.rhs)
                  IN  e.count = IF x.kind = Add THEN lhs + rhs ELSE lhs - rhs

\* The expression ids the evaluator has resolved for the current function.
Resolved ==
    {i \in 0..(Len(CurrentFunc.expressions) - 1) :
        Counter(Expression, CurrentFunc.expressions[i + 1].kind, i) \in DOMAIN region_ids}

\* C3: once expression i of a function is resolved, every region of the
\* function whose counter is expression i has been emitted.
C3_EveryRegionOfExpression ==
    pc \in {"first", "pending"} =>
        \A i \in Resolved :
            \A j \in 1..Len(CurrentFunc.regions) :
                LET region == CurrentFunc.regions[j]
                IN  (is_expression(region.count) /\ region.count.id = i) =>
                        \E e \in emitted : e.func = func_i /\ e.region = j /\ e.expr = i

\* The expressions that operand c of an expression depends on.
DependsOn(c) == IF is_expression(c) THEN {c.id} ELSE {}

\* The ids reachable from expression i through operands, in at most n steps.
RECURSIVE Reach(_, _, _)
Reach(func, from, n) ==
    IF n = 0 THEN from
    ELSE Reach(func,
               from \cup UNION {DependsOn(func.expressions[i + 1].lhs)
                                  \cup DependsOn(func.expressions[i + 1].rhs) : i \in from},
               n - 1)

\* The operand dependencies between the expressions of func are acyclic.
Acyclic(func) ==
    \A i \in 0..(Len(func.expressions) - 1) :
        LET x == func.expressions[i + 1]
        IN  i \notin Reach(func, DependsOn(x.lhs) \cup DependsOn(x.rhs),
                           Len(func.expressions))

\* |pending| at the start of the pending loop: tries_left starts at
\* |pending| + 1 with passes at 1, and every new pass moves one from
\* tries_left to passes.
InitialPending == tries_left + passes - 1

\* C4: for a function whose expressions can all be resolved (acyclic operand
\* dependencies; every operand is Zero, Instrumentation or an expression of
\* the table) the pending loop empties its list within |pending| + 1 passes
\* and the assertion on tries_left never fires.
C4_PendingLoopBound ==
    (pc \in {"pending", "panic_assert"} /\ Acyclic(CurrentFunc)) =>
        /\ pc # "panic_assert"
        /\ pending_exprs # <<>> => passes <= InitialPending + 1

\* C5: a function with an expression that can never be resolved does not
\* abort generate_report: the functions after it are still processed.
C5_NoAbort ==
    ~(pc = "panic_assert" /\ ~Acyclic(CurrentFunc))

\* C6: for the filename list get_files_from_id returns for a function, the
\* file_id of every region generate_report looks up is a valid index.
C6_FileIdInBounds ==
    pc \in {"simple", "first", "pending", "panic_index"} =>
        \A j \in 1..Len(CurrentFunc.regions) :
            CurrentFunc.regions[j].file_id < Len(paths)

\* The value the working map holds for the counter an emission was made for
\* (0 when it holds none).
WorkingValue(e) ==
    LET func == cov_fun[e.func]
        key == IF e.expr >= 0
               THEN Counter(Expression, func.expressions[e.expr + 1].kind, e.expr)
               ELSE func.regions[e.region].count
        found == get(region_ids, key)
    IN  IF found = {} THEN 0 ELSE CHOOSE v \in found : TRUE

\* C29: every count stored in the report for a region of the function being
\* evaluated equals the integer the working map holds for the region's
\* counter: the conversions between u64, i64 and the report's unsigned count
\* and the i64 arithmetic leave the value as it is, so no wrapped-around count
\* is stored for a Subtract whose right operand exceeds its left one.
C29_StoredCountIsWorkingValue ==
    pc \in {"simple", "first", "pending"} =>
        \A e \in emitted : e.func = func_i => e.count = WorkingValue(e)

\* ---------------------------------------------------- merge: properties
\* The records of a profile as a bag of (name, fn_hash, counts): how many
\* records of p are equal to x in these three.
Multiplicity(p, x) ==
    Cardinality({k \in 1..Len(p.records) :
                    /\ p.records[k].name = x.name
                    /\ p.records[k].hash = x.hash
                    /\ p.records[k].counts = x.counts})

\* Two profiles hold the same records with the same counts, in any order.
SameRecords(p, q) ==
    /\ Len(p.records) = Len(q.records)
    /\ \A k \in 1..Len(p.records) :
          Multiplicity(p, p.records[k]) = Multiplicity(q, p.records[k])

Doubled(counts) ==
    [k \in 1..Len(counts) |-> IF 2 * counts[k] > U64Max THEN U64Max ELSE 2 * counts[k]]

\* C7: merging a profile into a copy of itself doubles, with saturation,
\* the counts of every record of the profile.
C7_SelfMergeDoubles ==
    (in_a = in_b /\ "ab" \in DOMAIN results) =>
        \A k \in 1..Len(in_a.records) :
            /\ k <= Len(results["ab"].records)
            /\ results["ab"].records[k].counts = Doubled(in_a.records[k].counts)

\* C8: merge(merge(a, b), c) and merge(a, merge(b, c)) hold the same records
\* with the same counts, whatever the lengths of the count vectors.
C8_Associative ==
    ("abc" \in DOMAIN results /\ "a_bc" \in DOMAIN results) =>
        SameRecords(results["abc"], results["a_bc"])

\* The values that the records of p have in field f.
FieldValues(p, f) == UNION {p.records[k][f] : k \in 1..Len(p.records)}

\* The name hash a record is indexed under (push computes it from the name
\* when the record carries none).
NameHashOf(rec) ==
    IF rec.name_hash # {} THEN rec.name_hash
    ELSE {compute_hash(n) : n \in rec.name}

NameHashes(p) == UNION {NameHashOf(p.records[k]) : k \in 1..Len(p.records)}

\* No record of one profile has the name, name_hash or fn_hash of a record
\* of the other.
Disjoint(p, q) ==
    /\ FieldValues(p, "name") \cap FieldValues(q, "name") = {}
    /\ NameHashes(p) \cap NameHashes(q) = {}
    /\ FieldValues(p, "hash") \cap FieldValues(q, "hash") = {}

\* C9: for two profiles that share no function, merge(a, b) and merge(b, a)
\* hold the same records with the same counts.
C9_CommutativeDisjoint ==
    (Disjoint(in_a, in_b) /\ "ab" \in DOMAIN results /\ "ba" \in DOMAIN results) =>
        SameRecords(results["ab"], results["ba"])

\* The records of p that match r by (name_hash, fn_hash), or failing that by
\* fn_hash alone.
MatchesOf(p, r) ==
    LET by_hashes == {k \in 1..Len(p.records) :
                         /\ r.hash # {} /\ p.records[k].hash = r.hash
                         /\ NameHashOf(r) # {} /\ NameHashOf(p.records[k]) = NameHashOf(r)}
        by_fn_hash == {k \in 1..Len(p.records) :
                          r.hash # {} /\ p.records[k].hash = r.hash}
    IN  IF by_hashes # {} THEN by_hashes ELSE by_fn_hash

\* C10: every record merged into a base is either merged into the base record
\* that matches it by (name_hash, fn_hash), or failing that by fn_hash, or is
\* appended with its name inserted into the symbol table; none is dropped.
C10_MergedOrAppended ==
    outcome.kind # "none" =>
        LET r == outcome.record
            matches == MatchesOf(before, r)
        IN  IF matches # {}
            THEN /\ outcome.kind = "merged"
                 /\ outcome.into \in matches
                 /\ Len(self.records) = Len(before.records)
            ELSE /\ outcome.kind = "appended"
                 /\ self.records = Append(before.records, r)
                 /\ \E n \in r.name : \E h \in DOMAIN self.symtab : self.symtab[h] = n

\* The last merge_record merged a record into one of another count length.
LengthMismatch ==
    /\ mpc = "records"
    /\ outcome.kind = "merged"
    /\ Len(before.records[outcome.into].counts) # Len(outcome.record.counts)

\* C11: when a record is merged into a record whose count vector has another
\* length, the destination record keeps its counts and its value profile (and
\* so does the whole profile), and merge is not stopped: it is at the next
\* record of `other`, or returns.
C11_LengthMismatchLeavesRecord ==
    LengthMismatch =>
        /\ self.records[outcome.into].counts = before.records[outcome.into].counts
        /\ self.records[outcome.into].data = before.records[outcome.into].data
        /\ self = before
        /\ other.records[cursor - 1] = outcome.record
        /\ ENABLED (MergeRecord \/ MergeReturn)

\* Both records carry a value profile with sites to merge, and a record of
\* `other` remains.
C11_Witness ==
    /\ LengthMismatch
    /\ before.records[outcome.into].data # {}
    /\ outcome.record.data # {}
    /\ \E o \in before.records[outcome.into].data, t \in outcome.record.data :
          /\ Len(o.indirect_callsites) = 1 /\ Len(t.indirect_callsites) = 1
          /\ Len(o.indirect_callsites[1]) = Len(t.indirect_callsites[1])
          /\ Len(o.indirect_callsites[1]) > 0
    /\ cursor <= Len(other.records)

\* The last merge_record merged a record into one of the same count length.
EqualLengthMerge ==
    /\ mpc = "records"
    /\ outcome.kind = "merged"
    /\ Len(before.records[outcome.into].counts) = Len(outcome.record.counts)

\* C12: a merge of records with count vectors of equal length makes every
\* destination count min(own + other, u64::MAX) at the same index; the count
\* never gets smaller, and one that was u64::MAX is u64::MAX afterwards.
C12_EqualLengthSaturatingSum ==
    EqualLengthMerge =>
        LET own == before.records[outcome.into].counts
            now == self.records[outcome.into].counts
        IN  /\ Len(now) = Len(own)
            /\ \A k \in 1..Len(own) :
                  /\ now[k] = IF own[k] + outcome.record.counts[k] > U64Max THEN U64Max
                              ELSE own[k] + outcome.record.counts[k]
                  /\ now[k] >= own[k]
                  /\ now[k] <= U64Max
                  /\ own[k] = U64Max => now[k] = U64Max

\* A count that an earlier merge of the same call saturated is merged with a
\* positive count.
C12_Witness ==
    /\ EqualLengthMerge
    /\ cursor > 2
    /\ \E k \in 1..Len(outcome.record.counts) :
          /\ before.records[outcome.into].counts[k] = U64Max
          /\ outcome.record.counts[k] > 0
          /\ outcome.record.counts[k] < U64Max
          /\ self.records[outcome.into].counts[k] = U64Max

\* Every (hash, name) entry of the symbol table of p is in that of q.
SymtabWithin(p, q) ==
    \A h \in DOMAIN p.symtab :
        /\ h \in DOMAIN q.symtab
        /\ q.symtab[h] = p.symtab[h]

\* C13: the symbol table of a merged profile holds every (hash, name) entry
\* of the symbol table of every profile that was merged.
C13_SymtabContainsInputs ==
    /\ "ab" \in DOMAIN results =>
          SymtabWithin(in_a, results["ab"]) /\ SymtabWithin(in_b, results["ab"])
    /\ "abc" \in DOMAIN results =>
          /\ SymtabWithin(in_a, results["abc"])
          /\ SymtabWithin(in_b, results["abc"])
          /\ SymtabWithin(in_c, results["abc"])

\* ------------------------------------------------ decoder: properties
\* The counter, if it refers to an expression of func, has the kind stored
\* for that expression.
KindAgrees(func, c) ==
    is_expression(c) =>
        /\ c.id + 1 <= Len(func.expressions)
        /\ c.ek = func.expressions[c.id + 1].kind

\* C20: in a decoded function record every counter that refers to an
\* expression (an operand of an expression, or the counter of a region) has
\* the kind that is stored for that expression.
C20_KindsAgree ==
    \A f \in 1..Len(cov_fun) :
        /\ \A i \in 1..Len(cov_fun[f].expressions) :
              /\ KindAgrees(cov_fun[f], cov_fun[f].expressions[i].lhs)
              /\ KindAgrees(cov_fun[f], cov_fun[f].expressions[i].rhs)
        /\ \A j \in 1..Len(cov_fun[f].regions) :
              KindAgrees(cov_fun[f], cov_fun[f].regions[j].count)

\* ------------------------------------------- value profile: properties
\* The sum of the counts that the entries of a site have for the value v.
RECURSIVE SiteCount(_, _)
SiteCount(site, v) ==
    IF site = <<>> THEN 0
    ELSE (IF site[1].value = v THEN site[1].count ELSE 0)
            + SiteCount(SubSeq(site, 2, Len(site)), v)

SiteValues(site) == {site[k].value : k \in 1..Len(site)}

\* The site `now` is the merge of the sites dst and src: one entry per value
\* of either, ascending, with the saturating sum of the value's counts.
MergedSite(now, dst, src) ==
    /\ SiteValues(now) = SiteValues(dst) \cup SiteValues(src)
    /\ \A k \in 1..(Len(now) - 1) : now[k].value < now[k + 1].value
    /\ \A k \in 1..Len(now) :
          now[k].count = IF SiteCount(dst, now[k].value) + SiteCount(src, now[k].value) > U64Max
                         THEN U64Max
                         ELSE SiteCount(dst, now[k].value) + SiteCount(src, now[k].value)

\* The sites `now` of one kind are the merge of the sites dst and src.
MergedSites(now, dst, src) ==
    IF Len(dst) = Len(src)
    THEN /\ Len(now) = Len(dst)
         /\ \A k \in 1..Len(dst) : MergedSite(now[k], dst[k], src[k])
    ELSE now = dst

\* C19: when the value profiles of two records are merged, the sites of a
\* kind that both have in the same number are merged pairwise, each into one
\* entry per distinct value, ascending, with the saturating sum of the
\* value's counts; the sites of a kind whose numbers differ are unchanged.
C19_SitesMerged ==
    (EqualLengthMerge /\ before.records[outcome.into].data # {} /\ outcome.record.data # {}) =>
        \A dst \in before.records[outcome.into].data, src \in outcome.record.data :
            \A now \in self.records[outcome.into].data :
                /\ MergedSites(now.indirect_callsites,
                               dst.indirect_callsites, src.indirect_callsites)
                /\ MergedSites(now.mem_op_sizes, dst.mem_op_sizes, src.mem_op_sizes)

\* -------------------------------------------------- insert: properties
\* The emissions into the range loc of the file path.
InsertedFor(path, loc) == {e \in emitted : e.path = path /\ e.loc = loc}

RECURSIVE SumOfCounts(_)
SumOfCounts(es) ==
    IF es = {} THEN 0
    ELSE LET e == CHOOSE x \in es : TRUE
         IN  e.count + SumOfCounts(es \ {e})

Saturated(n) == IF n > U64Max THEN U64Max ELSE n

\* The hits of a file of the report, empty when the report has no such file.
HitsIn(rep, path) == IF path \in DOMAIN rep THEN rep[path] ELSE EmptyMap

\* The step inserts e: the range gets the count, or min(old + count,
\* usize::MAX) when it had an entry; no other range of any file changes.
InsertStep(e) ==
    LET old == HitsIn(report, e.path)
        new == HitsIn(report', e.path)
    IN  /\ e.path \in DOMAIN report'
        /\ DOMAIN new = (DOMAIN old) \cup {e.loc}
        /\ new[e.loc] = IF e.loc \in DOMAIN old THEN Saturated(old[e.loc] + e.count)
                        ELSE e.count
        /\ \A l \in DOMAIN old : l # e.loc => new[l] = old[l]
        /\ \A q \in DOMAIN report : q # e.path => q \in DOMAIN report' /\ report'[q] = report[q]
        /\ DOMAIN report' = (DOMAIN report) \cup {e.path}

\* C16: CoverageResult::insert(range, count) stores count when the range has
\* no entry and otherwise replaces the entry by min(old + count, usize::MAX),
\* leaving every other range as it was; so the value of a range is always
\* the saturated sum of the counts inserted for it.
C16_InsertSaturatedSum ==
    /\ [](\A path \in DOMAIN report : \A loc \in DOMAIN report[path] :
            report[path][loc] = Saturated(SumOfCounts(InsertedFor(path, loc))))
    /\ [](\A e \in emitted : e.path \in DOMAIN report /\ e.loc \in DOMAIN report[e.path])
    /\ [][\A e \in emitted' \ emitted : InsertStep(e)]_vars

\* A range got a second count whose sum with the first is past usize::MAX,
\* in a file that has another range.
C16_Witness ==
    \E path \in DOMAIN report : \E loc \in DOMAIN report[path] :
        /\ Cardinality(InsertedFor(path, loc)) = 2
        /\ \A e \in InsertedFor(path, loc) : e.count > 0
        /\ SumOfCounts(InsertedFor(path, loc)) > U64Max
        /\ report[path][loc] = U64Max
        /\ Cardinality(DOMAIN report[path]) > 1

\* ------------------------------------------- path remapping: properties
\* base is a prefix of path, as paths.
HasPrefix(path, base) ==
    /\ path.abs = base.abs
    /\ Len(base.comps) <= Len(path.comps)
    /\ \A k \in 1..Len(base.comps) : path.comps[k] = base.comps[k]

\* No key of the report starts with the remapping's source.
NoKeyUnderSource ==
    \A k \in DOMAIN report_files : ~HasPrefix(k, remapping.source)

\* Neither of source and dest is a prefix of the other.
Unrelated ==
    /\ ~HasPrefix(remapping.dest, remapping.source)
    /\ ~HasPrefix(remapping.source, remapping.dest)

\* C14 as stated: after apply_remapping(from, to) no key of the report
\* starts with `from`, whatever the report, from and to.
C14_NoKeyStartsWithFrom ==
    rpc = "done" => NoKeyUnderSource

\* C14 as amended: after apply_remapping(from, to), where neither of from
\* and to is a prefix of the other, no key of the report starts with `from`.
C14_NoKeyStartsWithFromUnrelated ==
    (rpc = "done" /\ Unrelated) => NoKeyUnderSource

\* A report with a key under `from` and a key outside it was remapped.
C14_Witness ==
    /\ rpc = "done"
    /\ Unrelated
    /\ \E k \in DOMAIN files_before : HasPrefix(k, remapping.source)
    /\ \E k \in DOMAIN files_before : ~HasPrefix(k, remapping.source)
    /\ NoKeyUnderSource

\* `to` joined with what follows `from` in the key k.
Renamed(k) ==
    [abs |-> remapping.dest.abs,
     comps |-> remapping.dest.comps
                \o [j \in 1..(Len(k.comps) - Len(remapping.source.comps)) |->
                        k.comps[Len(remapping.source.comps) + j]]]

\* C15: apply_remapping(from, to) replaces every key that starts with `from`
\* by `to` joined with the rest of the key, with the result the key had; the
\* other keys and their results are unchanged; and the report has as many
\* files as before.
C15_RemapRenamesKeys ==
    rpc = "done" =>
        /\ \A k \in DOMAIN files_before :
              IF HasPrefix(k, remapping.source)
              THEN /\ Renamed(k) \in DOMAIN report_files
                   /\ report_files[Renamed(k)] = files_before[k]
              ELSE /\ k \in DOMAIN report_files
                   /\ report_files[k] = files_before[k]
        /\ Cardinality(DOMAIN report_files) = Cardinality(DOMAIN files_before)

\* ------------------------------------------------- headers: properties
\* The version word with its top 8 bits cleared.
TopByteCleared(word) == word % (2^LowBits)

\* C17: the version stored in a profile that the raw or the indexed reader
\* produced is the version word with its top 8 bits cleared, whatever flag
\* bits the word has.
C17_VersionMasked ==
    (hpc = "done" /\ reader \in {"raw", "indexed"}) =>
        \A p \in parsed : p.version = {TopByteCleared(bytes)}

\* The line is the given tag in some letter case.
IsTag(line, tag) == eq_ignore_case(line, tag)

KnownTag(line) ==
    \E tag \in {IR_TAG, FE_TAG, CSIR_TAG, ENTRY_TAG, NOT_ENTRY_TAG} : IsTag(line, tag)

\* C18: the text reader's parse_header maps the tags of the header lines, in
\* any order and in any letter case, to the flags (ir or not_entry_first:
\* IR-level; csir: IR-level and CSIR; entry_first: entry-first; fe: nothing),
\* and returns an error when a line has any other tag, an empty one included.
C18_TagsToFlags ==
    (reader = "text" /\ hpc \in {"done", "error"}) =>
        IF \A k \in 1..Len(bytes) : KnownTag(bytes[k])
        THEN /\ hpc = "done"
             /\ \A h \in parsed :
                   /\ h.is_ir_level <=>
                         \E k \in 1..Len(bytes) :
                            \/ IsTag(bytes[k], IR_TAG)
                            \/ IsTag(bytes[k], NOT_ENTRY_TAG)
                            \/ IsTag(bytes[k], CSIR_TAG)
                   /\ h.has_csir <=> \E k \in 1..Len(bytes) : IsTag(bytes[k], CSIR_TAG)
                   /\ h.entry_first <=> \E k \in 1..Len(bytes) : IsTag(bytes[k], ENTRY_TAG)
        ELSE hpc = "error"

\* ------------------------------------ function record decoder: properties
\* The counters of kind Expression that occur in a table and a list of regions.
ExpressionCountersOf(exprs, regions) ==
    {c \in {exprs[k].lhs : k \in 1..Len(exprs)}
           \cup {exprs[k].rhs : k \in 1..Len(exprs)}
           \cup {regions[k].count : k \in 1..Len(regions)}
           \cup {regions[k].false_count : k \in 1..Len(regions)} :
        is_expression(c)}

\* Every Expression counter indexes the table.
IdsValid(exprs, regions) ==
    \A c \in ExpressionCountersOf(exprs, regions) : c.id < Len(exprs)

\* The table is as long as the announced length, or as the largest id referred
\* to requires; the entries past the announced length have Zero operands, and
\* are the default expression unless a counter refers to them.
GrownWithDefaults(exprs, regions, announced) ==
    LET refs == {c.id : c \in ExpressionCountersOf(exprs, regions)}
    IN  /\ Len(exprs) >= announced
        /\ \A k \in 1..Len(exprs) :
             k > announced =>
                /\ \E id \in refs : id >= k - 1
                /\ exprs[k].lhs = DefaultCounter
                /\ exprs[k].rhs = DefaultCounter
                /\ (k - 1 \notin refs => exprs[k] = DefaultExpression)

\* C21: while and after a function record is decoded, every counter of kind
\* Expression in it (an operand of an expression, a region's primary or
\* secondary counter) has an id that indexes the record's expression table,
\* and the table has grown past its announced length only as far as such an
\* id requires, with entries whose operands are Zero and that are the default
\* (Subtract, Zero, Zero) unless a counter refers to them.
C21_ExpressionIdsValid ==
    /\ dpc \in {"expressions", "file", "regions", "done"} =>
          /\ IdsValid(expressions, mapping)
          /\ GrownWithDefaults(expressions, mapping, expr_len)
    /\ \A rec \in decoded :
          /\ IdsValid(rec.expressions, rec.regions)
          /\ GrownWithDefaults(rec.expressions, rec.regions, expr_len)

\* A record is decoded in which a branch region's secondary counter and an
\* expression's operand refer past the announced end of the table.
C21_Witness ==
    \E rec \in decoded :
        /\ Len(rec.expressions) > expr_len
        /\ \E k \in 1..Len(rec.regions) :
             /\ rec.regions[k].kind = Branch
             /\ is_expression(rec.regions[k].false_count)
             /\ rec.regions[k].false_count.id >= expr_len
        /\ \E k \in 1..expr_len :
             /\ is_expression(rec.expressions[k].lhs)
             /\ rec.expressions[k].lhs.id >= expr_len

\* The region headers that decode to a Zero counter with the expansion bit
\* clear and a shifted value that numbers a RegionKind.
KindHeader(h) ==
    /\ is_zero(parse_counter(h))
    /\ ~expansion_bit(h)
    /\ RegionKind_try_from(shifted_counter(h)) # {}

\* C22: every region whose header decodes to a Zero counter with the expansion
\* bit clear, and whose header shifted right by 3 is 0, 1, 2, 3 or 4, is
\* accepted and stored with the RegionKind of that number (Code, Expansion,
\* Skipped, Gap, Branch); for Branch the next two values are decoded as the
\* primary and the secondary counter.
C22_KindOfShiftedHeader ==
    \A k \in 1..Len(read_words) :
        LET h == read_words[k][1]
        IN  KindHeader(h) =>
                IF k > Len(mapping) THEN dpc = "panic_unwrap"
                ELSE /\ mapping[k].kind \in RegionKind_try_from(shifted_counter(h))
                     /\ mapping[k].kind = Branch =>
                            /\ Len(read_words[k]) = 3
                            /\ mapping[k].count = parse_counter(read_words[k][2])
                            /\ mapping[k].false_count = parse_counter(read_words[k][3])

\* ------------------------------------------ hash table values: properties
\* read_value has finished, one way or another.
ReadValueOver == rvpc \in {"returned", "error_unaligned", "error_eof", "panic_assert"}

\* C23: for a data_len that is a multiple of 8 and fits in the remaining
\* input, read_value returns exactly one (fn_hash, record) pair and leaves the
\* input data_len bytes after the start of the value (the assertion on the
\* number of collected records never fails); a data_len that is not a
\* multiple of 8 is rejected with an error value.
C23_ReadValueOnePair ==
    ReadValueOver =>
        IF data_len % 8 # 0 THEN rvpc = "error_unaligned"
        ELSE InputLen >= data_len =>
                /\ rvpc = "returned"
                /\ Len(result) = 1
                /\ returned = {[rest |-> data_len, value |-> result[1]]}

\* --------------------------------------- raw profile counters: properties
\* The bytes of the counters section, and of the section with its padding.
CountersBytes == profile_header.counters_len * counter_size(profile_header)

CountersAreaEnd == CountersBytes + profile_header.padding_bytes_after_counters

\* The bytes the counters of the entry of call i take.
CountsBytes(i) == data_section[i].num_counters * counter_size(profile_header)

\* C24: read_raw_counts rejects with an error value every record whose
\* counter offset is negative or past the counters section, or whose counters
\* (num_counters counters of the header's counter size from the offset on) end
\* past the counters area; the counters of every record it accepts are read
\* from inside the counters area.
C24_CountersInsideArea ==
    \A i \in 1..Len(calls) :
        LET c == calls[i]
        IN  /\ (\/ c.offset < 0
                \/ c.offset >= CountersBytes
                \/ c.offset + CountsBytes(i) > CountersAreaEnd)
                  => c.kind \in {"error_malformed", "error_eof"}
            /\ c.kind = "ok" =>
                  /\ c.from + c.offset >= 0
                  /\ c.from + c.offset + CountsBytes(i) <= CountersAreaEnd

\* The byte offset in the counters section that the pointer of entry i (from
\* 1) names: counter_ptr - (counters_delta - (i - 1) * sizeof entry), in the
\* arithmetic of the header's words.
OwnOffset(i) ==
    raw_wrap_i64(data_section[i].counter_ptr
                    - (profile_header.counters_delta - ((i - 1) * ProfileData_len)))

\* C25: in a raw profile of version 8 or later the counts of every entry that
\* is read are read starting at counter_ptr - (counters_delta - k x sizeof
\* entry) bytes from the start of the counters section (k from 0), and after
\* every record the running cursor equals the bytes consumed in the counters
\* section and the delta has been lowered by the size of one entry per record.
C25_OffsetRelativeToOwnEntry ==
    profile_header # EmptyMap /\ profile_header.version >= 8 =>
        /\ \A i \in 1..Len(calls) :
              /\ calls[i].delta
                    = (profile_header.counters_delta - ((i - 1) * ProfileData_len)) % RawWord
              /\ calls[i].kind = "ok" => calls[i].from + calls[i].offset = OwnOffset(i)
        /\ rcpc = "counters" =>
              /\ total_offset = cursor_at
              /\ counters_delta
                    = (profile_header.counters_delta - (Len(counters) * ProfileData_len)) % RawWord

\* Two entries of a version 8 profile have been read, the second one's
\* counters lying behind a gap after the first one's.
C25_Witness ==
    /\ profile_header # EmptyMap /\ profile_header.version >= 8
    /\ Len(counters) = 2 /\ Len(calls) = 2
    /\ calls[2].kind = "ok" /\ calls[2].offset > 0
    /\ calls[2].from > 0

\* C26: the indexed reader's parse_header reads mem_prof_offset exactly when
\* the version word with its top 8 bits cleared is at least 8,
\* binary_id_offset exactly when it is at least 9 and
\* temporary_prof_traces_offset exactly when it is at least 10, whatever flag
\* bits the version word carries.
C26_OffsetsByMaskedVersion ==
    reader = "indexed" /\ hpc \in {"parse_bytes", "done"} =>
        /\ header.mem_prof_offset <=> TopByteCleared(bytes) >= 8
        /\ header.binary_id_offset <=> TopByteCleared(bytes) >= 9
        /\ header.temporary_prof_traces_offset <=> TopByteCleared(bytes) >= 10

\* --------------------------------------------------- path lists: properties
\* C27: for every version from 3 on, parse_path_list returns the same list of
\* paths for the same entries whether the list is stored uncompressed or in a
\* deflate envelope, also for version 5 or later where relative entries are
\* joined onto the working directory given by the first entry.
C27_SameListEitherWay ==
    pl_version >= 3 =>
        \A plain \in pl_plain : \A deflated \in pl_deflated :
            /\ plain.kind = deflated.kind
            /\ plain.values = deflated.values

\* ------------------------------------- profile data sections: properties
\* The 48-byte records of the prf_data section.
RecordsOf(section) ==
    [k \in 1..(Len(section) \div 6) |->
        ProfileData(section[6 * (k - 1) + 1], section[6 * (k - 1) + 2],
                    read_u32_bytes(section[6 * (k - 1) + 6]))]

RECURSIVE SumCountersLen(_)
SumCountersLen(recs) ==
    IF recs = <<>> THEN 0
    ELSE Head(recs).counters_len + SumCountersLen(SubSeq(recs, 2, Len(recs)))

\* C28: for a prf_data section of whole 48-byte records, parse_profile_data
\* returns one ProfileData per record, with name_md5 from offset 0,
\* structural_hash from offset 8 and counters_len from offset 40; and when the
\* prf_cnts section holds exactly the counters of those records, the sum of
\* counters_len over the parsed records is the number of counters that
\* parse_profile_counters returns.
C28_OneRecordPer48Bytes ==
    Len(prf_data) % 6 = 0 =>
        /\ pdpc \notin {"panic_slice"}
        /\ pdpc \in {"counters", "done"} => pd_res = RecordsOf(prf_data)
        /\ \A counts \in prof_counts : SumCountersLen(pd_res) = Len(counts)

\* --------------------------------------- remapping arguments: properties
RemappingParseErrors ==
    {"EmptyRemapping", "MissingSourcePath", "MissingDestinationPath", "TooManyPaths"}

\* The comma-separated pieces of the argument.
Pieces == split(fs_input, ",")

\* C30: for every input string from_str returns a remapping, and then the
\* input is exactly two non-empty comma-separated paths, or one of the
\* RemappingParseError values; an input without a comma, an empty source, an
\* empty destination and more than two paths each give an error value, and no
\* input makes from_str abort.
C30_FromStrTotal ==
    fspc # "call" =>
        /\ fspc = "returned"
        /\ \A r \in fs_result :
              /\ r.kind \in RemappingParseErrors \cup {"Ok"}
              /\ r.kind = "Ok" <=>
                    (Len(Pieces) = 2 /\ Pieces[1] # <<>> /\ Pieces[2] # <<>>)

====
